---- MODULE Spec2Model ----
(***************************************************************************)
(* Use Case Library: the Express API (server.ts) and the CSV importer      *)
(* (importScript.ts) over one UseCase table.                               *)
(*                                                                         *)
(* Text is a sequence of one-character strings, so that trimming, case     *)
(* folding and length rules are computed rather than assumed.  A nullable  *)
(* or optional text is a set: {} when absent/null, {s} when it is s.       *)
(*                                                                         *)
(* A handler is one action per stretch of code between two awaits on the   *)
(* store.  Spec is the whole system.  WriteSpec is its write path (create  *)
(* requests racing each other and the import script); ServeSpec is one     *)
(* create request and any number of other requests over a table that       *)
(* earlier runs have left; ImportSpec is the import script over several    *)
(* files with a store that may fail, racing one create request, and        *)
(* ImportLiveSpec adds that the script's awaits return; AllSpec is one     *)
(* request of each kind and the import script together.  `overlapped`,     *)
(* `after`, `queries`, `startLen`, `failures` and `prev` are history the   *)
(* properties are stated with; no handler reads them.                      *)
(***************************************************************************)
EXTENDS Integers, Sequences, FiniteSets, Bags, TLC

\* ---------------------------------------------------------------- bounds
\* Number of POST /api/use-cases requests a behaviour may carry.
NumReqs == 2
\* Number of times the import script may be run.
MaxRuns == 2
\* Number of store or file failures the import script may meet.
MaxFailures == 1
\* Number of list requests the explore view may have in flight at once.
MaxInFlight == 2
\* Number of rows of the table the explore view browses: two pages of 12.
ExploreRows == 13

\* ------------------------------------------------------------------ text
Null == {}
Some(s) == {s}
Val(o) == CHOOSE s \in o : TRUE

Uppers == <<"A","B","C","D","E","F","G","H","I","J","K","L","M",
            "N","O","P","Q","R","S","T","U","V","W","X","Y","Z">>
Lowers == <<"a","b","c","d","e","f","g","h","i","j","k","l","m",
            "n","o","p","q","r","s","t","u","v","w","x","y","z">>
Digits == {"0","1","2","3","4","5","6","7","8","9"}
WhiteSpace == {" ", "\t", "\n", "\r"}

Range(f) == {f[i] : i \in DOMAIN f}

ToLowerChar(c) ==
  IF c \in Range(Uppers) THEN Lowers[CHOOSE i \in 1..26 : Uppers[i] = c] ELSE c

ToUpperChar(c) ==
  IF c \in Range(Lowers) THEN Uppers[CHOOSE i \in 1..26 : Lowers[i] = c] ELSE c

ToLowerCase(s) == [i \in 1..Len(s) |-> ToLowerChar(s[i])]

toUpperCase(s) == [i \in 1..Len(s) |-> ToUpperChar(s[i])]

\* String.prototype.trim / validator's trim(): strip white space at both ends.
RECURSIVE TrimLeft(_)
TrimLeft(s) ==
  IF s # <<>> /\ Head(s) \in WhiteSpace THEN TrimLeft(Tail(s)) ELSE s

RECURSIVE TrimRight(_)
TrimRight(s) ==
  IF s # <<>> /\ s[Len(s)] \in WhiteSpace
    THEN TrimRight(SubSeq(s, 1, Len(s) - 1))
    ELSE s

trim(s) == TrimRight(TrimLeft(s))

\* Whether pat occurs in s at position i (1-based).
OccursAt(s, pat, i) ==
  /\ i >= 1
  /\ i + Len(pat) - 1 <= Len(s)
  /\ \A k \in 1..Len(pat) : s[i + k - 1] = pat[k]

\* String.prototype.includes
Includes(s, pat) == \E i \in 1..(Len(s) + 1) : OccursAt(s, pat, i)

\* String.prototype.replace(pattern: string, replacement): the first
\* occurrence only.
replace(s, pat, rep) ==
  IF Includes(s, pat)
    THEN LET i == CHOOSE j \in 1..(Len(s) + 1) :
                    /\ OccursAt(s, pat, j)
                    /\ \A k \in 1..(j - 1) : ~OccursAt(s, pat, k)
         IN SubSeq(s, 1, i - 1) \o rep \o SubSeq(s, i + Len(pat), Len(s))
    ELSE s

\* Prisma string filter { equals, mode: 'insensitive' }.
EqualsInsensitive(a, b) == ToLowerCase(a) = ToLowerCase(b)

\* Faulty variant: the substring match is case-sensitive.
ContainsSensitive(a, b) == Includes(a, b)

\* Prisma string filter { contains, mode: 'insensitive' }.
ContainsInsensitive(a, b) == Includes(ToLowerCase(a), ToLowerCase(b))

\* ----------------------------------------------------- numbers in text
DigitSeq == <<"0","1","2","3","4","5","6","7","8","9">>

\* Number.prototype.toString(): the decimal digits of a natural number.
RECURSIVE NatText(_)
NatText(n) ==
  IF n < 10 THEN <<DigitSeq[n + 1]>> ELSE NatText(n \div 10) \o <<DigitSeq[(n % 10) + 1]>>

DigitVal(c) == (CHOOSE i \in 1..10 : DigitSeq[i] = c) - 1

\* Value of a non-empty run of decimal digits.
RECURSIVE DigitsVal(_)
DigitsVal(s) ==
  IF s = <<>> THEN 0 ELSE DigitsVal(SubSeq(s, 1, Len(s) - 1)) * 10 + DigitVal(s[Len(s)])

HasSign(s) == s # <<>> /\ Head(s) \in {"+", "-"}

Unsigned(s) == IF HasSign(s) THEN Tail(s) ELSE s

\* validator.js isInt without allow_leading_zeroes: /^[-+]?[0-9]+$/.
IsIntText(s) ==
  /\ Unsigned(s) # <<>>
  /\ \A i \in 1..Len(Unsigned(s)) : Unsigned(s)[i] \in Digits

\* parseInt(s, 10) of a text that isInt accepted.
parseInt(s) ==
  IF s # <<>> /\ Head(s) = "-" THEN 0 - DigitsVal(Unsigned(s)) ELSE DigitsVal(Unsigned(s))

\* Faulty variant: the upper limit is not enforced.
isIntNoMax(s, min, max) == IsIntText(s) /\ parseInt(s) >= min

\* isInt({ min, max }): the pattern, then the numeric range.
isInt(s, min, max) == IsIntText(s) /\ parseInt(s) >= min /\ parseInt(s) <= max

\* isInt({ min }) has no upper limit.
isIntMin(s, min) == IsIntText(s) /\ parseInt(s) >= min

\* Faulty variant: rounds down.
CeilAsFloor(a, b) == a \div b

\* Math.ceil(a / b) for a >= 0, b > 0.
Ceil(a, b) == (a + b - 1) \div b

\* ------------------------------------------------------------ URL shape
Letters == Range(Uppers) \cup Range(Lowers)
UrlHostChars == Digits \cup Letters \cup {".", "-"}
UrlTldChars == Letters \cup {"."}
UrlPathChars == Digits \cup Letters \cup {"_", "/", " ", ".", "-"}
HttpScheme == <<"h","t","t","p",":","/","/">>
HttpsScheme == <<"h","t","t","p","s",":","/","/">>

AllIn(s, from, to, class) == \A i \in from..to : s[i] \in class

\* ([\da-z.-]+)\.([a-z.]{2,6})([/\w .-]*)*\/?$ with the i flag: a host run,
\* a dot, 2 to 6 letters or dots, then only path characters to the end.
UrlBodyMatches(s) ==
  \E i \in 1..Len(s) : \E n \in 2..6 :
    /\ i + 1 + n <= Len(s)
    /\ AllIn(s, 1, i, UrlHostChars)
    /\ s[i + 1] = "."
    /\ AllIn(s, i + 2, i + 1 + n, UrlTldChars)
    /\ AllIn(s, i + 2 + n, Len(s), UrlPathChars)

\* urlRegex.test(value): the scheme is optional.
urlRegex(s) ==
  \/ UrlBodyMatches(s)
  \/ /\ OccursAt(ToLowerCase(s), HttpScheme, 1)
     /\ UrlBodyMatches(SubSeq(s, Len(HttpScheme) + 1, Len(s)))
  \/ /\ OccursAt(ToLowerCase(s), HttpsScheme, 1)
     /\ UrlBodyMatches(SubSeq(s, Len(HttpsScheme) + 1, Len(s)))

\* ----------------------------------------------------- validation rules
UseCaseMin == 3
UseCaseMax == 500
ConceptMin == 10
ConceptMax == 10000
ImplementationMax == 10000
BenefitMax == 5000
CategoryMax == 200
SearchMax == 500
PageMin == 1
LimitMin == 1
LimitMax == 100
DefaultPage == <<"1">>
DefaultLimit == <<"2","0">>

BodyFields == {"useCase", "conceptDescription", "concreteImplementation",
               "benefit", "industry", "department", "valueChainStep", "url"}
RequiredFields == {"useCase", "conceptDescription"}

FieldMax(f) ==
  CASE f = "useCase" -> UseCaseMax
    [] f = "conceptDescription" -> ConceptMax
    [] f = "concreteImplementation" -> ImplementationMax
    [] f = "benefit" -> BenefitMax
    [] OTHER -> CategoryMax

\* The sanitizers of createUseCaseValidation write the trimmed value back
\* into req.body; .optional() leaves an absent field absent, a required
\* field that is absent is sanitized from undefined to ''.
SanitizeBody(b) ==
  [f \in BodyFields |->
     IF b[f] = Null
       THEN IF f \in RequiredFields THEN Some(<<>>) ELSE Null
       ELSE Some(trim(Val(b[f])))]

Err(field, msg) == [field |-> field, message |-> msg]

\* Faulty variant: only the upper limits are enforced.
CreateErrorsCapsOnly(b) ==
  LET s == SanitizeBody(b)
      len(f) == Len(Val(s[f]))
  IN {Err(f, "must not exceed the maximum length") :
        f \in {g \in BodyFields \ {"url"} : s[g] # Null /\ len(g) > FieldMax(g)}}

\* The errors createUseCaseValidation collects (validationResult(req)).
CreateErrors(b) ==
  LET s == SanitizeBody(b)
      len(f) == Len(Val(s[f]))
  IN (IF len("useCase") = 0
        THEN {Err("useCase", "Use case name is required")} ELSE {})
     \cup (IF len("useCase") < UseCaseMin \/ len("useCase") > UseCaseMax
        THEN {Err("useCase", "Use case must be between 3 and 500 characters")} ELSE {})
     \cup (IF len("conceptDescription") = 0
        THEN {Err("conceptDescription", "Concept description is required")} ELSE {})
     \cup (IF len("conceptDescription") < ConceptMin \/ len("conceptDescription") > ConceptMax
        THEN {Err("conceptDescription",
                  "Concept description must be between 10 and 10000 characters")}
        ELSE {})
     \cup {Err(f, "must not exceed the maximum length") :
             f \in {g \in BodyFields \ (RequiredFields \cup {"url"}) :
                      s[g] # Null /\ len(g) > FieldMax(g)}}
     \cup (IF s["url"] # Null /\ len("url") > 0 /\ ~urlRegex(Val(s["url"]))
        THEN {Err("url", "Invalid URL format")} ELSE {})

QueryFields == {"page", "limit", "industry", "valueChainStep", "department", "search"}

\* The errors paginationValidation collects.
PaginationErrors(q) ==
  (IF q["page"] # Null /\ ~isIntMin(Val(q["page"]), PageMin)
     THEN {Err("page", "Page must be a positive integer")} ELSE {})
  \cup (IF q["limit"] # Null /\ ~isInt(Val(q["limit"]), LimitMin, LimitMax)
     THEN {Err("limit", "Limit must be between 1 and 100")} ELSE {})
  \cup {Err(f, "Invalid value") :
          f \in {g \in {"industry", "valueChainStep", "department"} :
                   q[g] # Null /\ Len(trim(Val(q[g]))) > CategoryMax}}
  \cup (IF q["search"] # Null /\ Len(trim(Val(q["search"]))) > SearchMax
     THEN {Err("search", "Invalid value")} ELSE {})

\* The errors idParamValidation collects.
IdParamErrors(id) ==
  IF isIntMin(id, 1) THEN {} ELSE {Err("id", "ID must be a positive integer")}

\* validateForm: the least lengths the creation form accepts.
FormNameMin == 3
FormConceptMin == 10

\* ---------------------------------------------------------------- errors
AppErrorName == <<"A","p","p","E","r","r","o","r">>
ValidationAppErrorName ==
  <<"V","a","l","i","d","a","t","i","o","n","A","p","p","E","r","r","o","r">>
NotFoundErrorName == <<"N","o","t","F","o","u","n","d","E","r","r","o","r">>
UnauthorizedErrorName ==
  <<"U","n","a","u","t","h","o","r","i","z","e","d","E","r","r","o","r">>

VALIDATION_ERROR ==
  <<"V","A","L","I","D","A","T","I","O","N","_","E","R","R","O","R">>
DUPLICATE_ENTRY == <<"D","U","P","L","I","C","A","T","E","_","E","N","T","R","Y">>
NOT_FOUND == <<"N","O","T","_","F","O","U","N","D">>
INTERNAL_SERVER_ERROR ==
  <<"I","N","T","E","R","N","A","L","_","S","E","R","V","E","R","_","E","R","R","O","R">>

\* new AppError(message, statusCode)
AppError(message, statusCode) ==
  [name |-> AppErrorName, statusCode |-> statusCode, message |-> message, errors |-> {}]

\* new ValidationAppError(errors)
ValidationAppError(errors) ==
  [name |-> ValidationAppErrorName, statusCode |-> 400,
   message |-> "Validation failed", errors |-> errors]

\* new NotFoundError(resource, id)
NotFoundError ==
  [name |-> NotFoundErrorName, statusCode |-> 404,
   message |-> "UseCase not found", errors |-> {}]

\* new UnauthorizedError()
UnauthorizedError ==
  [name |-> UnauthorizedErrorName, statusCode |-> 401,
   message |-> "Unauthorized: Invalid or missing API key", errors |-> {}]

\* error.constructor.name.toUpperCase().replace('ERROR', '_ERROR')
ErrorCode(name) ==
  replace(toUpperCase(name), <<"E","R","R","O","R">>, <<"_","E","R","R","O","R">>)

\* The global error handler, for the errors the handlers raise themselves:
\* ValidationAppError first, then any other AppError.
GlobalErrorHandler(error) ==
  IF error.name = ValidationAppErrorName
    THEN [status |-> 400,
          body |-> [success |-> FALSE, error |-> "Validation failed",
                    code |-> VALIDATION_ERROR, details |-> error.errors]]
    ELSE [status |-> error.statusCode,
          body |-> [success |-> FALSE, error |-> error.message,
                    code |-> ErrorCode(error.name)]]

\* process.env['NODE_ENV'] as the global error handler reads it.
NodeEnvs == {"production", "development"}

\* The global error handler's last branch, for an error that is none of
\* the server's own classes: a rejected store query.
InternalServerError(message, nodeEnv) ==
  [status |-> 500,
   body |-> [success |-> FALSE,
             error |-> IF nodeEnv = "production"
                         THEN "An unexpected error occurred"
                         ELSE message,
             code |-> INTERNAL_SERVER_ERROR]]

\* The message of the error a rejected store query carries.
StoreErrorMessage == "Can't reach database server"

\* ------------------------------------------------------------ middleware
api == <<"a","p","i">>
usecases == <<"u","s","e","-","c","a","s","e","s">>
filtersSeg == <<"f","i","l","t","e","r","s">>
health == <<"h","e","a","l","t","h">>

\* Faulty variant: any non-empty header is accepted.
apiKeyAuthPresenceOnly(method, providedApiKey, apiKey) ==
  IF method = "POST"
    THEN IF apiKey = ""
           THEN TRUE
           ELSE ~(providedApiKey = Null \/ Val(providedApiKey) = "")
    ELSE TRUE

\* Faulty variant: no fallback when API_KEY is not configured.
apiKeyAuthNoFallback(method, providedApiKey, apiKey) ==
  IF method = "POST"
    THEN ~(providedApiKey = Null
           \/ Val(providedApiKey) = ""
           \/ Val(providedApiKey) # apiKey)
    ELSE TRUE

\* apiKeyAuthMiddleware: TRUE when it calls next() without an error.
apiKeyAuthMiddleware(method, providedApiKey, apiKey) ==
  IF method = "POST"
    THEN IF apiKey = ""
           THEN TRUE
           ELSE ~(providedApiKey = Null
                  \/ Val(providedApiKey) = ""
                  \/ Val(providedApiKey) # apiKey)
    ELSE TRUE

\* app.use('/api', apiKeyAuthMiddleware): only paths under /api pass through it.
AuthPasses(method, path, providedApiKey, apiKey) ==
  IF path # <<>> /\ Head(path) = api
    THEN apiKeyAuthMiddleware(method, providedApiKey, apiKey)
    ELSE TRUE

\* The route a request is dispatched to, in the order the routes are registered.
Route(method, path) ==
  CASE method = "GET" /\ path = <<health>> -> "health"
    [] method = "GET" /\ path = <<api, usecases>> -> "list"
    [] method = "GET" /\ path = <<api, usecases, filtersSeg>> -> "filters"
    [] method = "GET" /\ Len(path) = 3 /\ SubSeq(path, 1, 2) = <<api, usecases>> -> "getById"
    [] method = "POST" /\ path = <<api, usecases>> -> "create"
    [] OTHER -> "notFound"

\* ----------------------------------------------------------------- store
\* Faulty variant: an insert stamps updatedAt on every row of the table.
StoreCreateTouchingAll(table, data) ==
  Append([i \in 1..Len(table) |-> [table[i] EXCEPT !.updatedAt = Len(table) + 1]],
    [id |-> Len(table) + 1,
     useCase |-> data.useCase,
     conceptDescription |-> data.conceptDescription,
     concreteImplementation |-> data.concreteImplementation,
     benefit |-> data.benefit,
     industry |-> data.industry,
     department |-> data.department,
     valueChainStep |-> data.valueChainStep,
     url |-> data.url,
     createdAt |-> Len(table) + 1,
     updatedAt |-> Len(table) + 1])

\* prisma.useCase.create({ data }): the store assigns the id and timestamps.
StoreCreate(table, data) ==
  Append(table,
    [id |-> Len(table) + 1,
     useCase |-> data.useCase,
     conceptDescription |-> data.conceptDescription,
     concreteImplementation |-> data.concreteImplementation,
     benefit |-> data.benefit,
     industry |-> data.industry,
     department |-> data.department,
     valueChainStep |-> data.valueChainStep,
     url |-> data.url,
     createdAt |-> Len(table) + 1,
     updatedAt |-> Len(table) + 1])

\* Faulty variant: the lookup is case-sensitive.
FindFirstByNameExact(table, name) ==
  {table[i] : i \in {j \in 1..Len(table) : table[j].useCase = name}}

\* prisma.useCase.findFirst({ where: { useCase: { equals, mode: 'insensitive' } } })
\* as a set: empty when no row matches.
FindFirstByName(table, name) ==
  {table[i] : i \in {j \in 1..Len(table) : EqualsInsensitive(table[j].useCase, name)}}

\* prisma.useCase.findUnique({ where: { id } })
FindUnique(table, id) ==
  {table[i] : i \in {j \in 1..Len(table) : table[j].id = id}}

\* Faulty variant: the supplied filters are alternatives.
MatchesAnyFilter(row, q) ==
  LET given(f) == q[f] # Null /\ trim(Val(q[f])) # <<>>
      eq(f) == row[f] # Null /\ EqualsInsensitive(Val(row[f]), trim(Val(q[f])))
      term == trim(Val(q["search"]))
  IN \/ \A f \in {"industry", "valueChainStep", "department", "search"} : ~given(f)
     \/ given("industry") /\ eq("industry")
     \/ given("valueChainStep") /\ eq("valueChainStep")
     \/ given("department") /\ eq("department")
     \/ /\ given("search")
        /\ \/ ContainsInsensitive(row.useCase, term)
           \/ ContainsInsensitive(row.conceptDescription, term)
           \/ (row.benefit # Null /\ ContainsInsensitive(Val(row.benefit), term))

\* The where clause of the list handler applied to one row.
Matches(row, q) ==
  LET given(f) == q[f] # Null /\ trim(Val(q[f])) # <<>>
      eq(f) == row[f] # Null /\ EqualsInsensitive(Val(row[f]), trim(Val(q[f])))
      term == trim(Val(q["search"]))
  IN /\ given("industry") => eq("industry")
     /\ given("valueChainStep") => eq("valueChainStep")
     /\ given("department") => eq("department")
     /\ given("search") =>
          \/ ContainsInsensitive(row.useCase, term)
          \/ ContainsInsensitive(row.conceptDescription, term)
          \/ (row.benefit # Null /\ ContainsInsensitive(Val(row.benefit), term))

\* The matching rows, newest first (orderBy createdAt desc).
RECURSIVE MatchingDesc(_, _)
MatchingDesc(table, q) ==
  IF table = <<>> THEN <<>>
  ELSE LET last == table[Len(table)]
           rest == MatchingDesc(SubSeq(table, 1, Len(table) - 1), q)
       IN IF Matches(last, q) THEN <<last>> \o rest ELSE rest

\* Faulty variant: take is ignored, every match from skip on is returned.
FindManyUnbounded(table, q, skip, take) ==
  LET all == MatchingDesc(table, q)
  IN SubSeq(all, skip + 1, Len(all))

\* prisma.useCase.findMany({ where, skip, take, orderBy })
FindMany(table, q, skip, take) ==
  LET all == MatchingDesc(table, q)
  IN SubSeq(all, skip + 1, IF skip + take < Len(all) THEN skip + take ELSE Len(all))

\* prisma.useCase.count({ where })
Count(table, q) == Len(MatchingDesc(table, q))

\* The characters in code-unit order, the order the store sorts text by
\* under a byte-wise collation.
CharOrder ==
  <<"\t", "\n", "\r", " ", "-", ".", "/">> \o DigitSeq \o <<":">> \o Uppers
    \o <<"_">> \o Lowers

CharRank(c) == CHOOSE i \in 1..Len(CharOrder) : CharOrder[i] = c

\* a sorts strictly before b: at the first position where they differ, a
\* has ended or holds the lower character.
TextLess(a, b) ==
  \E k \in 1..(Len(b)) :
    /\ \A j \in 1..(k - 1) : j <= Len(a) /\ a[j] = b[j]
    /\ \/ k = Len(a) + 1
       \/ k <= Len(a) /\ CharRank(a[k]) < CharRank(b[k])

\* The texts of a set, ascending.
RECURSIVE SortAsc(_)
SortAsc(S) ==
  IF S = {} THEN <<>>
  ELSE LET least == CHOOSE x \in S : \A y \in S \ {x} : TextLess(x, y)
       IN <<least>> \o SortAsc(S \ {least})

\* prisma.useCase.findMany({ where: { f: { not: null } }, select: { f },
\*                           distinct: [f], orderBy: { f: 'asc' } })
FindDistinct(table, f) ==
  SortAsc({Val(table[i][f]) : i \in {j \in 1..Len(table) : table[j][f] # Null}})

\* Faulty variant: nothing is dropped from the list.
FilterKeepAll(list) == list

\* .filter(Boolean) on a list of texts: the empty text is dropped.
FilterBoolean(list) == SelectSeq(list, LAMBDA v : v # <<>>)

\* -------------------------------------------------------------- handlers
\* Faulty variant: blank optional fields are stored as null, as the importer does.
CreateDataBlankAsNull(b) ==
  LET s == SanitizeBody(b)
      opt(f) == IF s[f] = Null \/ trim(Val(s[f])) = <<>> THEN Null ELSE Some(trim(Val(s[f])))
  IN [useCase |-> trim(Val(s["useCase"])),
      conceptDescription |-> trim(Val(s["conceptDescription"])),
      concreteImplementation |-> opt("concreteImplementation"),
      benefit |-> opt("benefit"),
      industry |-> opt("industry"),
      department |-> opt("department"),
      valueChainStep |-> opt("valueChainStep"),
      url |-> opt("url")]

\* The data object the create handler passes to prisma.useCase.create,
\* built from the sanitized body.
CreateData(b) ==
  LET s == SanitizeBody(b)
      opt(f) == IF s[f] = Null THEN Null ELSE Some(trim(Val(s[f])))
  IN [useCase |-> trim(Val(s["useCase"])),
      conceptDescription |-> trim(Val(s["conceptDescription"])),
      concreteImplementation |-> opt("concreteImplementation"),
      benefit |-> opt("benefit"),
      industry |-> opt("industry"),
      department |-> opt("department"),
      valueChainStep |-> opt("valueChainStep"),
      url |-> opt("url")]

\* Faulty variant: the lookup uses the name as submitted, untrimmed.
CreateLookupNameRaw(b) == Val(b["useCase"])

\* The name the create handler looks up before inserting.
CreateLookupName(b) == trim(Val(SanitizeBody(b)["useCase"]))

DuplicateError == AppError("A use case with this name already exists", 409)

RouteNotFoundError == AppError("Route not found", 404)

Created(row) ==
  [status |-> 201, body |-> [message |-> "Use case created successfully", data |-> row]]

\* GET /api/use-cases/:id after validation passed.
GetUseCase(table, idText) ==
  LET useCase == FindUnique(table, parseInt(idText))
  IN IF useCase = {}
       THEN GlobalErrorHandler(NotFoundError)
       ELSE [status |-> 200, body |-> [data |-> Val(useCase)]]

QueryPage(q) == parseInt(IF q["page"] = Null THEN DefaultPage ELSE Val(q["page"]))

QueryLimit(q) == parseInt(IF q["limit"] = Null THEN DefaultLimit ELSE Val(q["limit"]))

\* Faulty variant: pages counted from zero.
QuerySkipFromZero(q) == QueryPage(q) * QueryLimit(q)

\* const skip = (page - 1) * limit
QuerySkip(q) == (QueryPage(q) - 1) * QueryLimit(q)

\* The pagination block of the list response.
Pagination(page, limit, total) ==
  LET totalPages == Ceil(total, limit)
  IN [page |-> page, limit |-> limit, total |-> total, totalPages |-> totalPages,
      hasNext |-> page < totalPages, hasPrev |-> page > 1]

\* The echo of the applied filters: the trimmed text, or null when absent.
FilterEcho(q) ==
  [f \in {"industry", "valueChainStep", "department", "search"} |->
     IF q[f] = Null THEN Null ELSE Some(trim(Val(q[f])))]

\* The list response, from the results of its two queries.
ListResponse(q, rows, total) ==
  [status |-> 200,
   body |-> [data |-> rows,
             pagination |-> Pagination(QueryPage(q), QueryLimit(q), total),
             filters |-> FilterEcho(q)]]

\* The columns GET /api/use-cases/filters queries.
FilterColumns == {"industry", "valueChainStep", "department"}

NoLists == [f \in FilterColumns |-> Null]

\* The response of GET /api/use-cases/filters, from the results of its
\* three queries.
FiltersResponse(lists) ==
  [status |-> 200,
   body |-> [industries |-> FilterBoolean(Val(lists["industry"])),
             valueChainSteps |-> FilterBoolean(Val(lists["valueChainStep"])),
             departments |-> FilterBoolean(Val(lists["department"]))]]

HealthResponse == [status |-> 200, body |-> [status |-> "healthy"]]

\* ------------------------------------------------------------- importer
CsvColumns == {"Use Case", "Concept description", "Concrete implementation",
               "Benefit", "Industry", "Department", "Value Chain Step", "URL"}

\* Faulty variant: the value is taken as it is, untrimmed.
normalizeValueNoTrim(value) ==
  IF value = Null THEN Null
  ELSE IF Len(Val(value)) > 0 THEN Some(Val(value)) ELSE Null

\* normalizeValue: null for absent, empty or white space only.
normalizeValue(value) ==
  IF value = Null THEN Null
  ELSE IF Len(trim(Val(value))) > 0 THEN Some(trim(Val(value))) ELSE Null

\* isValidUrl
isValidUrl(url) == urlRegex(url)

\* Faulty variant: a url that is not URL-shaped is dropped.
ImportDataDroppingBadUrl(row) ==
  [useCase |-> Val(normalizeValue(row["Use Case"])),
   conceptDescription |-> Val(normalizeValue(row["Concept description"])),
   concreteImplementation |-> normalizeValue(row["Concrete implementation"]),
   benefit |-> normalizeValue(row["Benefit"]),
   industry |-> normalizeValue(row["Industry"]),
   department |-> normalizeValue(row["Department"]),
   valueChainStep |-> normalizeValue(row["Value Chain Step"]),
   url |-> IF normalizeValue(row["URL"]) # Null /\ ~isValidUrl(Val(normalizeValue(row["URL"])))
             THEN Null ELSE normalizeValue(row["URL"])]

\* The data object the importer passes to prisma.useCase.create.
ImportData(row) ==
  [useCase |-> Val(normalizeValue(row["Use Case"])),
   conceptDescription |-> Val(normalizeValue(row["Concept description"])),
   concreteImplementation |-> normalizeValue(row["Concrete implementation"]),
   benefit |-> normalizeValue(row["Benefit"]),
   industry |-> normalizeValue(row["Industry"]),
   department |-> normalizeValue(row["Department"]),
   valueChainStep |-> normalizeValue(row["Value Chain Step"]),
   url |-> normalizeValue(row["URL"])]

NewStats(totalRows) ==
  [totalRows |-> totalRows, inserted |-> 0, skipped |-> 0, duplicates |-> 0,
   errors |-> 0, errorDetails |-> <<>>]

\* if (!useCase): null and the empty text are falsy.
Falsy(value) == value = Null \/ Val(value) = <<>>

\* Faulty variant: the name is looked up as the file has it.
ImportLookupNameRaw(row) == Val(row["Use Case"])

\* The name the importer looks up before inserting.
ImportLookupName(row) == Val(normalizeValue(row["Use Case"]))

\* ---------------------------------------------------------------- inputs
Secret == "s3cret"
NoHeader == Null

NoBody == [f \in BodyFields |-> Null]
NoQuery == [f \in QueryFields |-> Null]

Concept10 == <<"U","s","e"," ","M","L"," ","n","o","w">>
LongText(n) == [i \in 1..n |-> "a"]

\* " Abc" with every optional field supplied, some padded, one blank.
BodyFull ==
  [NoBody EXCEPT !["useCase"] = Some(<<" ","A","b","c">>),
                 !["conceptDescription"] = Some(Concept10 \o <<" ">>),
                 !["benefit"] = Some(<<" "," ">>),
                 !["industry"] = Some(<<" ","C","a","r">>),
                 !["url"] = Some(<<"a",".","i","o"," ">>)]
\* "aBC ": the same name in another letter case, required fields only.
BodyMinimal ==
  [NoBody EXCEPT !["useCase"] = Some(<<"a","B","C"," ">>),
                 !["conceptDescription"] = Some(<<"\t">> \o Concept10)]
\* Three characters raw, two after trimming.
BodyShortName ==
  [NoBody EXCEPT !["useCase"] = Some(<<"a","b"," ">>),
                 !["conceptDescription"] = Some(Concept10)]
\* No conceptDescription at all.
BodyNoConcept == [NoBody EXCEPT !["useCase"] = Some(<<"A","b","c">>)]
\* Another name, with an upper-case search hit in the benefit and a blank
\* value chain step.
BodyOther ==
  [NoBody EXCEPT !["useCase"] = Some(<<"Q","r","s">>),
                 !["conceptDescription"] = Some(Concept10),
                 !["benefit"] = Some(<<"H","T","M","L">>),
                 !["industry"] = Some(<<"C","A","R"," ">>),
                 !["valueChainStep"] = Some(<<" ">>)]
\* A url that is not URL-shaped.
BodyBadUrl ==
  [NoBody EXCEPT !["useCase"] = Some(<<"T","u","v">>),
                 !["conceptDescription"] = Some(Concept10),
                 !["url"] = Some(<<"n","o","p","e">>)]
\* One character more than the name may have.
BodyLongName ==
  [NoBody EXCEPT !["useCase"] = Some(LongText(UseCaseMax + 1)),
                 !["conceptDescription"] = Some(Concept10)]

ValidBodies == {BodyFull, BodyMinimal, BodyOther}
InvalidBodies == {BodyShortName, BodyNoConcept, BodyBadUrl, BodyLongName}

\* The POST /api/use-cases requests considered: <<x-api-key header, body>>.
CreateInputs ==
  ({Some(Secret)} \X (ValidBodies \cup InvalidBodies))
    \cup ({NoHeader} \X {BodyFull, BodyShortName})
    \cup ({Some("S3CRET")} \X {BodyMinimal, BodyShortName})

\* The requests of CreateInputs that reach the store whatever API_KEY is.
ValidCreateInputs == {Some(Secret)} \X ValidBodies

Req(method, path, key, q) == [method |-> method, path |-> path, key |-> key, query |-> q]

IdTexts == {<<"1">>, <<"0","2">>, <<"7">>, <<"0">>, <<"-","1">>, <<"1",".","5">>, <<"x">>}

ListQueries ==
  {[NoQuery EXCEPT !["page"] = pg, !["limit"] = lm] :
     pg \in {Null, Some(<<"2">>), Some(<<"3">>)},
     lm \in {Null, Some(<<"1">>), Some(<<"2">>)}}
  \cup {[NoQuery EXCEPT !["page"] = Some(<<"0">>)],
        [NoQuery EXCEPT !["page"] = Some(<<"1",".","5">>)],
        [NoQuery EXCEPT !["limit"] = Some(<<"1","0","1">>)],
        [NoQuery EXCEPT !["limit"] = Some(<<"0">>)],
        [NoQuery EXCEPT !["limit"] = Some(<<"x">>)],
        [NoQuery EXCEPT !["limit"] = Some(<<"1","0","0">>)],
        [NoQuery EXCEPT !["limit"] = Some(<<"1">>), !["search"] = Some(<<" ","m","l">>)],
        [NoQuery EXCEPT !["search"] = Some(<<"X","M">>)],
        [NoQuery EXCEPT !["search"] = Some(<<"a","b","c">>)],
        [NoQuery EXCEPT !["search"] = Some(<<" "," ">>)],
        [NoQuery EXCEPT !["search"] = Some(<<"z","z">>)],
        [NoQuery EXCEPT !["industry"] = Some(<<" ","C","a","r"," ">>)],
        [NoQuery EXCEPT !["industry"] = Some(<<"c","a","r">>),
                        !["search"] = Some(<<"h","t","m","l">>)],
        [NoQuery EXCEPT !["department"] = Some(<<"i","t">>)],
        [NoQuery EXCEPT !["industry"] = Some(<<"c","a","r">>),
                        !["department"] = Some(<<"i","t">>)],
        [NoQuery EXCEPT !["industry"] = Some(<<" "," ">>),
                        !["department"] = Some(<<"I","T">>)],
        [NoQuery EXCEPT !["valueChainStep"] = Some(<<"O","P","S">>),
                        !["department"] = Some(<<"i","t">>),
                        !["search"] = Some(<<"x","m">>)],
        [NoQuery EXCEPT !["valueChainStep"] = Some(<<"o","p">>)]}

\* One request per route, and one to an undefined route.
FewReaderInputs ==
  {Req("GET", <<health>>, NoHeader, NoQuery),
   Req("GET", <<api, usecases, filtersSeg>>, NoHeader, NoQuery),
   Req("GET", <<api, usecases, <<"1">>>>, NoHeader, NoQuery),
   Req("GET", <<api, usecases>>, NoHeader,
       [NoQuery EXCEPT !["limit"] = Some(<<"1">>), !["search"] = Some(<<" ","m","l">>)]),
   Req("POST", <<api, <<"n","o","p","e">>>>, Some(Secret), NoQuery)}

\* Every other request considered: reads, and requests to undefined routes.
ReaderInputs ==
  {Req("GET", <<health>>, NoHeader, NoQuery),
   Req("GET", <<api, usecases, filtersSeg>>, NoHeader, NoQuery),
   Req("GET", <<<<"n","o","p","e">>>>, NoHeader, NoQuery),
   Req("GET", <<api, <<"n","o","p","e">>>>, NoHeader, NoQuery),
   Req("POST", <<api, <<"n","o","p","e">>>>, Some(Secret), NoQuery),
   Req("POST", <<api, <<"n","o","p","e">>>>, NoHeader, NoQuery),
   Req("POST", <<health>>, NoHeader, NoQuery),
   Req("GET", <<api, usecases, <<"1">>>>, Some("S3CRET"), NoQuery)}
  \cup {Req("GET", <<api, usecases, id>>, NoHeader, NoQuery) : id \in IdTexts}
  \cup {Req("GET", <<api, usecases>>, NoHeader, q) : q \in ListQueries}

CsvRow(name, concept) ==
  [c \in CsvColumns |->
     IF c = "Use Case" THEN name ELSE IF c = "Concept description" THEN concept ELSE Null]

\* Use_Case_Library.csv as csv-parse returns it: one name, the same name in
\* another letter case, a row without a description, a row without a name,
\* another name.
CsvFile ==
  << [CsvRow(Some(<<"A","B","C">>), Some(<<"M","L">>))
        EXCEPT !["Industry"] = Some(<<"c","a","r">>), !["URL"] = Some(<<"n","o","p","e">>)],
     CsvRow(Some(<<"a","b","c">>), Some(Concept10)),
     CsvRow(Some(<<"X","y","z">>), Some(<<>>)),
     CsvRow(Null, Some(Concept10)),
     [CsvRow(Some(<<"L","m","n">>), Some(Concept10))
        EXCEPT !["Benefit"] = Some(<<"x","m","l">>), !["Department"] = Some(<<"I","T">>),
               !["Value Chain Step"] = Some(<<"O","p","s">>)] >>

\* A file with quoted fields, which csv-parse does not trim: a padded name,
\* a description of blanks, a name of one tab.
CsvQuoted ==
  << CsvRow(Some(<<" ","P","q","r"," ">>), Some(<<" ">> \o Concept10)),
     CsvRow(Some(<<"S","t","u">>), Some(<<" "," ">>)),
     CsvRow(Some(<<"\t">>), Some(Concept10)) >>

\* The files Use_Case_Library.csv may be: the two above, and one with a
\* header row only.
CsvFiles == <<CsvFile, CsvQuoted, <<>> >>

\* ----------------------------------------------------------------- state
VARIABLES
  API_KEY,     \* process.env['API_KEY'] ?? '' as read at start-up
  useCases,    \* the UseCase table, in insertion order
  post,        \* per POST /api/use-cases request: position, request, response
  reader,      \* the request of the reading client: position, request, response
  importer,    \* the import script: position, row index, statistics, exit status
  overlapped,  \* history: some existence check passed while another
               \* process stood between its own check and its insert
  explore,     \* ExplorePage: its React state and its list requests in flight
  form         \* AddUseCasePage: its React state and the request it sent

vars == <<API_KEY, useCases, post, reader, importer, overlapped, explore, form>>

Reqs == 1..NumReqs

NoResponse == [status |-> 0, body |-> [none |-> TRUE]]

IdlePost ==
  [pc |-> "idle", key |-> NoHeader, body |-> NoBody, res |-> NoResponse,
   queries |-> 0, after |-> {}]

IdleReader ==
  [pc |-> "idle", req |-> Req("GET", <<health>>, NoHeader, NoQuery), res |-> NoResponse,
   queries |-> 0, rows |-> Null, total |-> Null, lists |-> NoLists, startLen |-> 0]

\* What is kept of a run once the next one starts.
NoRun == [stats |-> NewStats(0), exitCode |-> Null, startLen |-> 0]

IdleImporter ==
  [pc |-> "idle", run |-> 0, file |-> 0, i |-> 0, stats |-> NewStats(0),
   exitCode |-> Null, queries |-> 0, failures |-> 0, startLen |-> 0, prev |-> NoRun]

\* --------------------------------------------------------- frontend inputs
\* The texts typed into the search box.
SearchTexts == {<<>>, <<"m","l">>}

\* A valid create body for row n of the table the explore view browses.
ExploreBody(n) ==
  [NoBody EXCEPT !["useCase"] = Some(<<"U","c">> \o NatText(n)),
                 !["conceptDescription"] = Some(Concept10),
                 !["industry"] = IF n % 2 = 1 THEN Some(<<"C","a","r">>) ELSE Null,
                 !["valueChainStep"] = IF n = 1 THEN Some(<<"O","p","s">>) ELSE Null]

\* A table the create endpoint produces from n such bodies.
RECURSIVE TableOf(_)
TableOf(n) ==
  IF n = 0 THEN <<>> ELSE StoreCreate(TableOf(n - 1), CreateData(ExploreBody(n)))

ExploreTable == TableOf(ExploreRows)

\* What the dropdowns offer: "All" and the lists fetchFilterOptions got
\* from GET /api/use-cases/filters.
FilterOptions(table) ==
  LET body == FiltersResponse([f \in FilterColumns |-> Some(FindDistinct(table, f))]).body
      elems(list) == {list[i] : i \in 1..Len(list)}
  IN [industry |-> {<<>>} \cup elems(body.industries),
      valueChainStep |-> {<<>>} \cup elems(body.valueChainSteps)]

\* The values typed into the fields of the creation form.
FormValues ==
  [useCase |-> {<<"a","b"," ">>, <<"T","u","v">>, <<" ","A","b","c">>, LongText(UseCaseMax + 1)},
   conceptDescription |-> {Concept10 \o <<" ">>},
   benefit |-> {<<" "," ">>},
   url |-> {<<"n","o","p","e">>, <<"a",".","i","o"," ">>, <<>>}]

\* =============================================================== frontend
\* Everything the server model holds.
server == <<API_KEY, useCases, post, reader, importer, overlapped>>

\* GET /api/use-cases as a client sees it over a table that no one writes
\* to meanwhile: validation, then both queries, then the response.
ListAnswer(table, q) ==
  IF PaginationErrors(q) # {}
    THEN GlobalErrorHandler(ValidationAppError(PaginationErrors(q)))
    ELSE ListResponse(q, FindMany(table, q, QuerySkip(q), QueryLimit(q)), Count(table, q))

\* ------------------------------------------------------------ ExplorePage
\* The page before it is rendered: the initial values of its useState calls.
UnmountedExplore ==
  [mounted |-> FALSE,
   useCases |-> <<>>, pagination |-> Null,
   selectedIndustry |-> <<>>, selectedValueChainStep |-> <<>>, searchQuery |-> <<>>,
   isLoading |-> TRUE, error |-> Null, currentPage |-> 1,
   effectPending |-> FALSE,   \* the effect on fetchUseCases is due to run
   inFlight |-> EmptyBag,     \* the list requests sent and not yet answered
   latest |-> Null,           \* history: the list request sent last
   selectedUnder |-> Null]    \* history: the filters and search text on
                              \* display when the page was last selected

\* The page after its first render, its effects not yet run.
MountedExplore == [UnmountedExplore EXCEPT !.mounted = TRUE, !.effectPending = TRUE]

\* The header handleSubmit sends.
DemoApiKey == "demo-api-key"

\* The form as first drawn: every field the empty text.
EmptyFormData == [f \in BodyFields |-> <<>>]

\* The page before it is rendered: the initial values of its useState calls.
UnmountedForm ==
  [mounted |-> FALSE,
   formData |-> EmptyFormData, errors |-> {},
   isSubmitting |-> FALSE, submitSuccess |-> FALSE,
   body |-> NoBody,      \* the body of the request sent last
   requests |-> 0]       \* history: the number of requests sent

MountedForm == [UnmountedForm EXCEPT !.mounted = TRUE]

Init ==
  /\ API_KEY \in {"", Secret}
  /\ useCases = <<>>
  /\ post = [r \in Reqs |-> IdlePost]
  /\ reader = IdleReader
  /\ importer = IdleImporter
  /\ overlapped = FALSE
  /\ explore = UnmountedExplore
  /\ form = UnmountedForm

\* Some process other than request r stands between its check and its insert.
OtherInsertPending(r) ==
  \/ \E o \in Reqs \ {r} : post[o].pc = "create"
  \/ importer.pc = "create"

\* Some request stands between its check and its insert.
PostInsertPending == \E o \in Reqs : post[o].pc = "create"

DoneReqs == {r \in Reqs : post[r].pc = "done"}

\* -------------------------------------------------- POST /api/use-cases
\* Faulty variant: the validation chain runs before the API key check.
PostUseCaseValidatingFirst(r, inputs) ==
  /\ post[r].pc = "idle"
  /\ \E in \in inputs :
       LET key == in[1]
           body == in[2]
           errors == CreateErrors(body)
           started == [post[r] EXCEPT !.key = key, !.body = body, !.after = DoneReqs]
           reply(error) == [started EXCEPT !.pc = "done", !.res = GlobalErrorHandler(error)]
       IN IF errors # {}
            THEN /\ post' = [post EXCEPT ![r] = reply(ValidationAppError(errors))]
                 /\ UNCHANGED overlapped
          ELSE IF ~AuthPasses("POST", <<api, usecases>>, key, API_KEY)
            THEN /\ post' = [post EXCEPT ![r] = reply(UnauthorizedError)]
                 /\ UNCHANGED overlapped
          ELSE IF FindFirstByName(useCases, CreateLookupName(body)) # {}
            THEN /\ post' = [post EXCEPT
                               ![r] = [reply(DuplicateError) EXCEPT !.queries = 1]]
                 /\ UNCHANGED overlapped
          ELSE /\ post' = [post EXCEPT ![r] = [started EXCEPT !.pc = "create", !.queries = 1]]
               /\ overlapped' = (overlapped \/ OtherInsertPending(r))
  /\ UNCHANGED <<explore, form, API_KEY, useCases, reader, importer>>

\* Arrival up to the first await: the API key middleware, the validation
\* chain and its result handler, then the existence query.
PostUseCase(r, inputs) ==
  /\ post[r].pc = "idle"
  /\ \E in \in inputs :
       LET key == in[1]
           body == in[2]
           errors == CreateErrors(body)
           started == [post[r] EXCEPT !.key = key, !.body = body, !.after = DoneReqs]
           reply(error) == [started EXCEPT !.pc = "done", !.res = GlobalErrorHandler(error)]
       IN IF ~AuthPasses("POST", <<api, usecases>>, key, API_KEY)
            THEN /\ post' = [post EXCEPT ![r] = reply(UnauthorizedError)]
                 /\ UNCHANGED overlapped
          ELSE IF errors # {}
            THEN /\ post' = [post EXCEPT ![r] = reply(ValidationAppError(errors))]
                 /\ UNCHANGED overlapped
          ELSE IF FindFirstByName(useCases, CreateLookupName(body)) # {}
            THEN /\ post' = [post EXCEPT
                               ![r] = [reply(DuplicateError) EXCEPT !.queries = 1]]
                 /\ UNCHANGED overlapped
          ELSE /\ post' = [post EXCEPT ![r] = [started EXCEPT !.pc = "create", !.queries = 1]]
               /\ overlapped' = (overlapped \/ OtherInsertPending(r))
  /\ UNCHANGED <<explore, form, API_KEY, useCases, reader, importer>>

\* Faulty variant: the insert is conditional on the name still being free.
PostUseCaseCreateIfFree(r) ==
  /\ post[r].pc = "create"
  /\ IF FindFirstByName(useCases, CreateLookupName(post[r].body)) # {}
       THEN /\ post' = [post EXCEPT ![r] = [@ EXCEPT !.pc = "done",
                                                     !.queries = @ + 1,
                                                     !.res = GlobalErrorHandler(DuplicateError)]]
            /\ UNCHANGED useCases
       ELSE /\ useCases' = StoreCreate(useCases, CreateData(post[r].body))
            /\ post' = [post EXCEPT ![r] = [@ EXCEPT !.pc = "done",
                                                     !.queries = @ + 1,
                                                     !.res = Created(useCases'[Len(useCases')])]]
  /\ UNCHANGED <<explore, form, API_KEY, reader, importer, overlapped>>

\* The insert and the 201 response.
PostUseCaseCreate(r) ==
  /\ post[r].pc = "create"
  /\ useCases' = StoreCreate(useCases, CreateData(post[r].body))
  /\ post' = [post EXCEPT ![r] = [@ EXCEPT !.pc = "done",
                                           !.queries = @ + 1,
                                           !.res = Created(useCases'[Len(useCases')])]]
  /\ UNCHANGED <<explore, form, API_KEY, reader, importer, overlapped>>

\* Arrival of a request that passes the middleware, whose existence query
\* throws: the catch hands the error to the global error handler.
PostUseCaseFails(r, inputs) ==
  /\ post[r].pc = "idle"
  /\ \E in \in inputs, nodeEnv \in NodeEnvs :
       /\ AuthPasses("POST", <<api, usecases>>, in[1], API_KEY)
       /\ CreateErrors(in[2]) = {}
       /\ post' = [post EXCEPT
                     ![r] = [@ EXCEPT !.key = in[1], !.body = in[2], !.after = DoneReqs,
                                      !.pc = "done", !.queries = 1,
                                      !.res = InternalServerError(StoreErrorMessage, nodeEnv)]]
  /\ UNCHANGED <<explore, form, API_KEY, useCases, reader, importer, overlapped>>

\* Faulty variant: the insert that throws has added its row all the same.
PostUseCaseCreateFailsAfterInsert(r) ==
  /\ post[r].pc = "create"
  /\ useCases' = StoreCreate(useCases, CreateData(post[r].body))
  /\ \E nodeEnv \in NodeEnvs :
       post' = [post EXCEPT
                  ![r] = [@ EXCEPT !.pc = "done", !.queries = @ + 1,
                                   !.res = InternalServerError(StoreErrorMessage, nodeEnv)]]
  /\ UNCHANGED <<explore, form, API_KEY, reader, importer, overlapped>>

\* The insert throws: no row is added, and the catch hands the error on.
PostUseCaseCreateFails(r) ==
  /\ post[r].pc = "create"
  /\ \E nodeEnv \in NodeEnvs :
       post' = [post EXCEPT
                  ![r] = [@ EXCEPT !.pc = "done", !.queries = @ + 1,
                                   !.res = InternalServerError(StoreErrorMessage, nodeEnv)]]
  /\ UNCHANGED <<explore, form, API_KEY, useCases, reader, importer, overlapped>>

\* ------------------------------------------------------ other requests
\* A request answered without a second store query: health, get-by-id, an
\* undefined route, and every rejection.
Serve(inputs) ==
  /\ reader.pc \in {"idle", "done"}
  /\ \E req \in inputs :
       LET route == Route(req.method, req.path)
           errors == IF route = "list" THEN PaginationErrors(req.query)
                     ELSE IF route = "getById" THEN IdParamErrors(req.path[3])
                     ELSE {}
           answered(res, n) ==
             [IdleReader EXCEPT !.pc = "done", !.req = req, !.res = res, !.queries = n,
                                !.startLen = Len(useCases)]
       IN /\ ~(route = "list" /\ errors = {}
               /\ AuthPasses(req.method, req.path, req.key, API_KEY))
          /\ ~(route = "filters" /\ AuthPasses(req.method, req.path, req.key, API_KEY))
          /\ reader' =
               IF ~AuthPasses(req.method, req.path, req.key, API_KEY)
                 THEN answered(GlobalErrorHandler(UnauthorizedError), 0)
               ELSE IF errors # {}
                 THEN answered(GlobalErrorHandler(ValidationAppError(errors)), 0)
               ELSE IF route = "health" THEN answered(HealthResponse, 0)
               ELSE IF route = "getById"
                 THEN answered(GetUseCase(useCases, req.path[3]), 1)
               ELSE answered(GlobalErrorHandler(RouteNotFoundError), 0)
  /\ UNCHANGED <<explore, form, API_KEY, useCases, post, importer, overlapped>>

\* GET /api/use-cases: arrival, validation, and the first of the two
\* queries Promise.all issues, whichever the store runs first.
ListFirst(inputs) ==
  /\ reader.pc \in {"idle", "done"}
  /\ \E req \in inputs :
       /\ Route(req.method, req.path) = "list"
       /\ AuthPasses(req.method, req.path, req.key, API_KEY)
       /\ PaginationErrors(req.query) = {}
       /\ \/ reader' = [IdleReader EXCEPT
                          !.pc = "list", !.req = req, !.queries = 1,
                          !.startLen = Len(useCases),
                          !.rows = Some(FindMany(useCases, req.query,
                                                 QuerySkip(req.query), QueryLimit(req.query)))]
          \/ reader' = [IdleReader EXCEPT
                          !.pc = "list", !.req = req, !.queries = 1,
                          !.startLen = Len(useCases),
                          !.total = Some(Count(useCases, req.query))]
  /\ UNCHANGED <<explore, form, API_KEY, useCases, post, importer, overlapped>>

\* The other query, and the response.
ListSecond ==
  /\ reader.pc = "list"
  /\ LET q == reader.req.query
         rows == IF reader.rows = Null
                   THEN FindMany(useCases, q, QuerySkip(q), QueryLimit(q))
                   ELSE Val(reader.rows)
         total == IF reader.total = Null THEN Count(useCases, q) ELSE Val(reader.total)
     IN reader' = [reader EXCEPT !.pc = "done", !.queries = 2,
                                 !.rows = Null, !.total = Null,
                                 !.res = ListResponse(q, rows, total)]
  /\ UNCHANGED <<explore, form, API_KEY, useCases, post, importer, overlapped>>

\* GET /api/use-cases/filters: arrival and the first of the three queries
\* Promise.all issues, whichever the store runs first.
FiltersFirst(inputs) ==
  /\ reader.pc \in {"idle", "done"}
  /\ \E req \in inputs :
       /\ Route(req.method, req.path) = "filters"
       /\ AuthPasses(req.method, req.path, req.key, API_KEY)
       /\ \E f \in FilterColumns :
            reader' = [IdleReader EXCEPT
                         !.pc = "filters", !.req = req, !.queries = 1,
                         !.startLen = Len(useCases),
                         !.lists = [NoLists EXCEPT ![f] = Some(FindDistinct(useCases, f))]]
  /\ UNCHANGED <<explore, form, API_KEY, useCases, post, importer, overlapped>>

\* Another of the three queries, and after the last one the response.
FiltersQuery ==
  /\ reader.pc = "filters"
  /\ \E f \in {g \in FilterColumns : reader.lists[g] = Null} :
       LET lists == [reader.lists EXCEPT ![f] = Some(FindDistinct(useCases, f))]
       IN IF \E g \in FilterColumns : lists[g] = Null
            THEN reader' = [reader EXCEPT !.queries = @ + 1, !.lists = lists]
            ELSE reader' = [reader EXCEPT !.pc = "done", !.queries = @ + 1,
                                          !.lists = NoLists,
                                          !.res = FiltersResponse(lists)]
  /\ UNCHANGED <<explore, form, API_KEY, useCases, post, importer, overlapped>>

\* ---------------------------------------------------------- import script
\* The file of a behaviour is settled by the first run that reads it.
ImportMayStart ==
  \/ importer.pc = "idle"
  \/ importer.pc = "exited" /\ importer.run < MaxRuns

Previous == [stats |-> importer.stats, exitCode |-> importer.exitCode,
             startLen |-> importer.startLen]

\* Start of a run: the file is found, the store connected, the file read
\* and parsed.
ImportStart(files) ==
  /\ ImportMayStart
  /\ \E f \in (IF importer.file = 0 THEN files ELSE {importer.file}) :
       importer' = [importer EXCEPT
                      !.pc = "rows", !.run = @ + 1, !.file = f, !.i = 1,
                      !.stats = NewStats(Len(CsvFiles[f])), !.exitCode = Null,
                      !.queries = 0, !.startLen = Len(useCases), !.prev = Previous]
  /\ UNCHANGED <<explore, form, API_KEY, useCases, post, reader, overlapped>>

\* A run that fails before its first row: the file is missing, or the
\* connection, the read or the parse throws; process.exit(1).
ImportFatal ==
  /\ ImportMayStart
  /\ importer.failures < MaxFailures
  /\ importer' = [importer EXCEPT
                    !.pc = "exited", !.run = @ + 1, !.i = 0,
                    !.stats = NewStats(0), !.exitCode = Some(1),
                    !.queries = 0, !.failures = @ + 1,
                    !.startLen = Len(useCases), !.prev = Previous]
  /\ UNCHANGED <<explore, form, API_KEY, useCases, post, reader, overlapped>>

\* One row up to its insert: normalize, skip, existence query.
ImportRow ==
  /\ importer.pc = "rows"
  /\ importer.i <= Len(CsvFiles[importer.file])
  /\ LET row == CsvFiles[importer.file][importer.i]
         rowNumber == importer.i + 1
         useCase == normalizeValue(row["Use Case"])
         conceptDescription == normalizeValue(row["Concept description"])
         skip(reason) ==
           [importer EXCEPT !.i = @ + 1,
                            !.stats.skipped = @ + 1,
                            !.stats.errorDetails =
                               Append(@, [row |-> rowNumber, reason |-> reason])]
     IN IF Falsy(useCase)
          THEN /\ importer' = skip("Empty Use Case field")
               /\ UNCHANGED overlapped
        ELSE IF Falsy(conceptDescription)
          THEN /\ importer' = skip("Empty Concept description field")
               /\ UNCHANGED overlapped
        ELSE IF FindFirstByName(useCases, ImportLookupName(row)) # {}
          THEN /\ importer' = [importer EXCEPT !.i = @ + 1, !.queries = @ + 1,
                                               !.stats.duplicates = @ + 1]
               /\ UNCHANGED overlapped
        ELSE /\ importer' = [importer EXCEPT !.pc = "create", !.queries = @ + 1]
             /\ overlapped' = (overlapped \/ PostInsertPending)
  /\ UNCHANGED <<explore, form, API_KEY, useCases, post, reader>>

\* The catch block of the row loop: the error is counted and recorded, and
\* the loop goes on.
RowError ==
  [importer EXCEPT !.pc = "rows", !.i = @ + 1, !.queries = @ + 1, !.failures = @ + 1,
                   !.stats.errors = @ + 1,
                   !.stats.errorDetails =
                      Append(@, [row |-> importer.i + 1, reason |-> "store error"])]

\* Faulty variant: an error on a row ends the run.
ImportRowFailsFatal ==
  /\ importer.pc = "rows"
  /\ importer.i <= Len(CsvFiles[importer.file])
  /\ importer.failures < MaxFailures
  /\ LET row == CsvFiles[importer.file][importer.i]
     IN /\ ~Falsy(normalizeValue(row["Use Case"]))
        /\ ~Falsy(normalizeValue(row["Concept description"]))
  /\ importer' = [importer EXCEPT !.pc = "exited", !.queries = @ + 1, !.failures = @ + 1,
                                  !.stats.errors = @ + 1, !.exitCode = Some(1)]
  /\ UNCHANGED <<explore, form, API_KEY, useCases, post, reader, overlapped>>

\* The existence query of a row throws.
ImportRowFails ==
  /\ importer.pc = "rows"
  /\ importer.i <= Len(CsvFiles[importer.file])
  /\ importer.failures < MaxFailures
  /\ LET row == CsvFiles[importer.file][importer.i]
     IN /\ ~Falsy(normalizeValue(row["Use Case"]))
        /\ ~Falsy(normalizeValue(row["Concept description"]))
  /\ importer' = RowError
  /\ UNCHANGED <<explore, form, API_KEY, useCases, post, reader, overlapped>>

\* Faulty variant: the inserted row is not counted.
ImportCreateUncounted ==
  /\ importer.pc = "create"
  /\ useCases' = StoreCreate(useCases, ImportData(CsvFiles[importer.file][importer.i]))
  /\ importer' = [importer EXCEPT !.pc = "rows", !.i = @ + 1, !.queries = @ + 1]
  /\ UNCHANGED <<explore, form, API_KEY, post, reader, overlapped>>

\* The insert of the row that passed the check.
ImportCreate ==
  /\ importer.pc = "create"
  /\ useCases' = StoreCreate(useCases, ImportData(CsvFiles[importer.file][importer.i]))
  /\ importer' = [importer EXCEPT !.pc = "rows", !.i = @ + 1, !.queries = @ + 1,
                                  !.stats.inserted = @ + 1]
  /\ UNCHANGED <<explore, form, API_KEY, post, reader, overlapped>>

\* The insert of a row throws.
ImportCreateFails ==
  /\ importer.pc = "create"
  /\ importer.failures < MaxFailures
  /\ importer' = RowError
  /\ UNCHANGED <<explore, form, API_KEY, useCases, post, reader, overlapped>>

\* Faulty variant: the exit status is zero whatever happened.
ImportExitAlwaysZero ==
  /\ importer.pc = "rows"
  /\ importer.i > Len(CsvFiles[importer.file])
  /\ importer' = [importer EXCEPT !.pc = "exited", !.exitCode = Some(0)]
  /\ UNCHANGED <<explore, form, API_KEY, useCases, post, reader, overlapped>>

\* After the last row: the summary and process.exit.
ImportExit ==
  /\ importer.pc = "rows"
  /\ importer.i > Len(CsvFiles[importer.file])
  /\ importer' = [importer EXCEPT !.pc = "exited",
                                  !.exitCode = Some(IF importer.stats.errors > 0 THEN 1 ELSE 0)]
  /\ UNCHANGED <<explore, form, API_KEY, useCases, post, reader, overlapped>>

\* ------------------------------------------------------- specification
\* ------------------------------------------------------------ ExplorePage
\* params.set('limit', '12')
PageSize == <<"1","2">>

\* The query string fetchUseCases builds from the state it closed over.
ListParams(e) ==
  [NoQuery EXCEPT
     !["page"] = Some(NatText(e.currentPage)),
     !["limit"] = Some(PageSize),
     !["industry"] = IF e.selectedIndustry # <<>> THEN Some(e.selectedIndustry) ELSE Null,
     !["valueChainStep"] =
        IF e.selectedValueChainStep # <<>> THEN Some(e.selectedValueChainStep) ELSE Null,
     !["search"] = IF e.searchQuery # <<>> THEN Some(e.searchQuery) ELSE Null]

\* The filters and the search text of a list request.
Criteria(q) == <<q["industry"], q["valueChainStep"], q["search"]>>

\* fetchUseCases up to its await: the flags are set and the request sent.
SendList(e) ==
  [e EXCEPT !.isLoading = TRUE, !.error = Null,
            !.inFlight = @ (+) SetToBag({ListParams(e)}),
            !.latest = Some(ListParams(e))]

\* The page is rendered and no effect is due: it takes events.
ExploreReady == explore.mounted /\ ~explore.effectPending

\* n more list requests may be sent.
Room(n) == BagCardinality(explore.inFlight) + n <= MaxInFlight

\* hasActiveFilters
hasActiveFilters(e) ==
  e.selectedIndustry # <<>> \/ e.selectedValueChainStep # <<>> \/ e.searchQuery # <<>>

\* The first render of the page.
ExploreMount ==
  /\ ~explore.mounted
  /\ explore' = MountedExplore
  /\ UNCHANGED <<server, form>>

\* useEffect(() => { fetchUseCases(); }, [fetchUseCases]): after a render
\* in which the page, a filter or the search text changed.
FetchUseCasesEffect ==
  /\ explore.mounted /\ explore.effectPending
  /\ explore' = [SendList(explore) EXCEPT !.effectPending = FALSE]
  /\ UNCHANGED <<server, form>>

\* The search input's onChange: setSearchQuery(e.target.value).
SearchInput(texts) ==
  /\ ExploreReady /\ Room(1)
  /\ \E text \in texts :
       /\ text # explore.searchQuery
       /\ explore' = [explore EXCEPT !.searchQuery = text, !.effectPending = TRUE]
  /\ UNCHANGED <<server, form>>

\* handleFilterChange, from either dropdown.
handleFilterChange(options) ==
  /\ ExploreReady /\ Room(1)
  /\ \E filter \in DOMAIN options : \E value \in options[filter] :
       LET next == IF filter = "industry"
                     THEN [explore EXCEPT !.currentPage = 1, !.selectedIndustry = value]
                     ELSE [explore EXCEPT !.currentPage = 1,
                                          !.selectedValueChainStep = value]
       IN /\ next # explore
          /\ explore' = [next EXCEPT !.effectPending = TRUE]
  /\ UNCHANGED <<server, form>>

\* handleSearch: setCurrentPage(1), then fetchUseCases() as the render that
\* drew the form closed over it, so with the page of that render.
handleSearch ==
  /\ ExploreReady /\ Room(IF explore.currentPage = 1 THEN 1 ELSE 2)
  /\ explore' = [SendList(explore) EXCEPT !.currentPage = 1,
                                          !.effectPending = (explore.currentPage # 1)]
  /\ UNCHANGED <<server, form>>

\* clearFilters, from a button drawn while a filter is active.
clearFilters ==
  /\ ExploreReady /\ Room(1)
  /\ hasActiveFilters(explore)
  /\ explore' = [explore EXCEPT !.selectedIndustry = <<>>, !.selectedValueChainStep = <<>>,
                                !.searchQuery = <<>>, !.currentPage = 1,
                                !.effectPending = TRUE]
  /\ UNCHANGED <<server, form>>

\* The Pagination component is drawn.
PaginationShown(e) ==
  /\ ~e.isLoading /\ e.error = Null
  /\ Len(e.useCases) # 0
  /\ e.pagination # Null /\ Val(e.pagination).totalPages > 1

\* onPageChange from the Previous or the Next button, each enabled by the
\* flags of the pagination on display.
onPageChange ==
  /\ ExploreReady /\ Room(1)
  /\ PaginationShown(explore)
  /\ LET p == Val(explore.pagination)
     IN \E page \in (IF p.hasPrev THEN {p.page - 1} ELSE {})
                      \cup (IF p.hasNext THEN {p.page + 1} ELSE {}) :
          /\ page # explore.currentPage
          /\ explore' = [explore EXCEPT !.currentPage = page, !.effectPending = TRUE,
                                        !.selectedUnder = Some(Criteria(ListParams(explore)))]
  /\ UNCHANGED <<server, form>>

\* The error banner's onRetry: fetchUseCases().
Retry ==
  /\ ExploreReady /\ Room(1)
  /\ explore.error # Null
  /\ explore' = SendList(explore)
  /\ UNCHANGED <<server, form>>

\* fetchUseCases from its await on: the response of one of the requests in
\* flight, whichever comes first.
ListResponseArrives ==
  /\ ExploreReady
  /\ \E q \in BagToSet(explore.inFlight) :
       LET res == ListAnswer(useCases, q)
           rest == explore.inFlight (-) SetToBag({q})
       IN explore' =
            IF res.status \in 200..299
              THEN [explore EXCEPT !.useCases = res.body.data,
                                   !.pagination = Some(res.body.pagination),
                                   !.isLoading = FALSE, !.inFlight = rest]
              ELSE [explore EXCEPT !.error = Some("Failed to fetch use cases"),
                                   !.isLoading = FALSE, !.inFlight = rest]
  /\ UNCHANGED <<server, form>>

\* fetch rejects for one of the requests in flight: the catch and the finally.
ListFetchFails ==
  /\ ExploreReady
  /\ \E q \in BagToSet(explore.inFlight) :
       explore' = [explore EXCEPT !.error = Some("Failed to fetch"),
                                  !.isLoading = FALSE,
                                  !.inFlight = @ (-) SetToBag({q})]
  /\ UNCHANGED <<server, form>>

\* ---------------------------------------------------------- AddUseCasePage
\* validateForm: the fields it reports an error for.
validateForm(formData) ==
  (IF trim(formData["useCase"]) = <<>> \/ Len(trim(formData["useCase"])) < FormNameMin
     THEN {"useCase"} ELSE {})
  \cup (IF \/ trim(formData["conceptDescription"]) = <<>>
           \/ Len(trim(formData["conceptDescription"])) < FormConceptMin
          THEN {"conceptDescription"} ELSE {})
  \cup (IF trim(formData["url"]) # <<>> /\ ~urlRegex(trim(formData["url"]))
          THEN {"url"} ELSE {})

\* The body handleSubmit sends: JSON.stringify leaves out what is undefined.
FormBody(formData) ==
  [f \in BodyFields |->
     IF f \in RequiredFields
       THEN Some(trim(formData[f]))
       ELSE IF trim(formData[f]) = <<>> THEN Null ELSE Some(trim(formData[f]))]

\* The first render of the page.
FormMount ==
  /\ ~form.mounted
  /\ form' = MountedForm
  /\ UNCHANGED <<server, explore>>

\* handleChange: one field takes a value, and its error is cleared.
handleChange(values) ==
  /\ form.mounted /\ ~form.submitSuccess
  /\ \E name \in DOMAIN values : \E value \in values[name] :
       /\ value # form.formData[name]
       /\ form' = [form EXCEPT !.formData[name] = value, !.errors = @ \ {name}]
  /\ UNCHANGED <<server, explore>>

\* handleSubmit up to its await: validateForm, then the POST.
handleSubmit ==
  /\ form.mounted /\ ~form.submitSuccess /\ ~form.isSubmitting
  /\ form.requests < NumReqs
  /\ form' = IF validateForm(form.formData) # {}
               THEN [form EXCEPT !.errors = validateForm(form.formData)]
               ELSE [form EXCEPT !.isSubmitting = TRUE, !.errors = {},
                                 !.body = FormBody(form.formData),
                                 !.requests = @ + 1]
  /\ UNCHANGED <<server, explore>>

\* The request of the form that request slot r of the server may take in.
FormSent(r) ==
  IF form.isSubmitting /\ form.requests = r
    THEN {<<Some(DemoApiKey), form.body>>}
    ELSE {}

\* handleSubmit from its await on: the response to the POST.
CreateResponseArrives ==
  /\ form.isSubmitting
  /\ post[form.requests].pc = "done"
  /\ form' = IF post[form.requests].res.status \in 200..299
               THEN [form EXCEPT !.submitSuccess = TRUE, !.isSubmitting = FALSE]
               ELSE [form EXCEPT !.errors = {"general"}, !.isSubmitting = FALSE]
  /\ UNCHANGED <<server, explore>>

\* fetch rejects: the catch and the finally.
CreateFetchFails ==
  /\ form.isSubmitting
  /\ form' = [form EXCEPT !.errors = {"general"}, !.isSubmitting = FALSE]
  /\ UNCHANGED <<server, explore>>

Next ==
  \/ \E r \in Reqs : PostUseCase(r, CreateInputs)
  \/ \E r \in Reqs : PostUseCaseCreate(r)
  \/ \E r \in Reqs : PostUseCaseFails(r, CreateInputs)
  \/ \E r \in Reqs : PostUseCaseCreateFails(r)
  \/ Serve(ReaderInputs)
  \/ ListFirst(ReaderInputs)
  \/ ListSecond
  \/ FiltersFirst(ReaderInputs)
  \/ FiltersQuery
  \/ ImportStart(DOMAIN CsvFiles)
  \/ ImportFatal
  \/ ImportRow
  \/ ImportRowFails
  \/ ImportCreate
  \/ ImportCreateFails
  \/ ImportExit
  \/ ExploreMount
  \/ FetchUseCasesEffect
  \/ SearchInput(SearchTexts)
  \/ handleFilterChange(FilterOptions(useCases))
  \/ handleSearch
  \/ clearFilters
  \/ onPageChange
  \/ Retry
  \/ ListResponseArrives
  \/ ListFetchFails
  \/ FormMount
  \/ handleChange(FormValues)
  \/ handleSubmit
  \/ \E r \in Reqs : PostUseCase(r, FormSent(r))
  \/ CreateResponseArrives
  \/ CreateFetchFails

Spec == Init /\ [][Next]_vars

\* The write path alone: create requests with valid bodies, racing each
\* other and the import script.
WriteNext ==
  \/ \E r \in Reqs : PostUseCase(r, ValidCreateInputs)
  \/ \E r \in Reqs : PostUseCaseCreate(r)
  \/ ImportStart({1})
  \/ ImportRow
  \/ ImportCreate
  \/ ImportExit

WriteSpec == Init /\ [][WriteNext]_vars

\* The import script with a store and a file that may fail, over any of
\* the files, racing one create request.
ImportNext ==
  \/ PostUseCase(1, CreateInputs)
  \/ PostUseCaseCreate(1)
  \/ ImportStart(DOMAIN CsvFiles)
  \/ ImportFatal
  \/ ImportRow
  \/ ImportRowFails
  \/ ImportCreate
  \/ ImportCreateFails
  \/ ImportExit

ImportSpec == Init /\ [][ImportNext]_vars

\* The script runs to its end: every await on the store returns or throws.
ImportStep ==
  \/ ImportRow
  \/ ImportRowFails
  \/ ImportCreate
  \/ ImportCreateFails
  \/ ImportExit

ImportLiveSpec == ImportSpec /\ WF_vars(ImportStep)

\* Every process at once, the store never failing: one create request,
\* one request of the reading client per route, and the import script.
AllNext ==
  \/ PostUseCase(1, CreateInputs)
  \/ PostUseCaseCreate(1)
  \/ Serve(FewReaderInputs)
  \/ ListFirst(FewReaderInputs)
  \/ ListSecond
  \/ FiltersFirst(FewReaderInputs)
  \/ FiltersQuery
  \/ ImportStart(DOMAIN CsvFiles)
  \/ ImportRow
  \/ ImportCreate
  \/ ImportExit

AllSpec == Init /\ [][AllNext]_vars

\* A table the write path produces: an import run, then POST BodyOther.
SampleTable ==
  StoreCreate(StoreCreate(StoreCreate(<<>>, ImportData(CsvFile[1])),
                          ImportData(CsvFile[5])),
              CreateData(BodyOther))

\* The table outlives the server process: a server may start over any
\* table earlier runs have left.
ServeInit ==
  /\ API_KEY \in {"", Secret}
  /\ useCases \in {SubSeq(SampleTable, 1, n) : n \in 0..Len(SampleTable)}
  /\ post = [r \in Reqs |-> IdlePost]
  /\ reader = IdleReader
  /\ importer = IdleImporter
  /\ overlapped = FALSE
  /\ explore = UnmountedExplore
  /\ form = UnmountedForm

\* One create request and any number of other requests, over such a table.
ServeNext ==
  \/ PostUseCase(1, CreateInputs)
  \/ PostUseCaseCreate(1)
  \/ Serve(ReaderInputs)
  \/ ListFirst(ReaderInputs)
  \/ ListSecond
  \/ FiltersFirst(ReaderInputs)
  \/ FiltersQuery

ServeSpec == ServeInit /\ [][ServeNext]_vars

\* The create endpoint alone, with a store that may fail: every create
\* request, each at any of its steps, over such a table.
CreateNext ==
  \/ \E r \in Reqs : PostUseCase(r, CreateInputs)
  \/ \E r \in Reqs : PostUseCaseFails(r, CreateInputs)
  \/ \E r \in Reqs : PostUseCaseCreate(r)
  \/ \E r \in Reqs : PostUseCaseCreateFails(r)

CreateSpec == ServeInit /\ [][CreateNext]_vars

\* The explore view alone, over a table of two pages that no one writes to.
ExploreInit ==
  /\ API_KEY \in {"", Secret}
  /\ useCases = ExploreTable
  /\ post = [r \in Reqs |-> IdlePost]
  /\ reader = IdleReader
  /\ importer = IdleImporter
  /\ overlapped = FALSE
  /\ explore = UnmountedExplore
  /\ form = UnmountedForm

ExploreNext ==
  \/ ExploreMount
  \/ FetchUseCasesEffect
  \/ SearchInput(SearchTexts)
  \/ handleFilterChange(FilterOptions(useCases))
  \/ handleSearch
  \/ clearFilters
  \/ onPageChange
  \/ Retry
  \/ ListResponseArrives
  \/ ListFetchFails

ExploreSpec == ExploreInit /\ [][ExploreNext]_vars

\* The creation form and the create endpoint that answers it, over such a
\* table as ServeSpec starts from, with any of the keys a deployment sets.
FormInit ==
  /\ API_KEY \in {"", Secret, DemoApiKey}
  /\ useCases \in {<<>>, SampleTable}
  /\ post = [r \in Reqs |-> IdlePost]
  /\ reader = IdleReader
  /\ importer = IdleImporter
  /\ overlapped = FALSE
  /\ explore = UnmountedExplore
  /\ form = UnmountedForm

FormNext ==
  \/ FormMount
  \/ handleChange(FormValues)
  \/ handleSubmit
  \/ \E r \in Reqs : PostUseCase(r, FormSent(r))
  \/ \E r \in Reqs : PostUseCaseCreate(r)
  \/ CreateResponseArrives
  \/ CreateFetchFails

FormSpec == FormInit /\ [][FormNext]_vars

\* ================================================================ claims
\* The name request r submitted, trimmed.
SubmittedName(r) == trim(Val(post[r].body["useCase"]))

\* The rows whose name equals n ignoring case.
RowsNamed(n) == {i \in 1..Len(useCases) : ToLowerCase(useCases[i].useCase) = ToLowerCase(n)}

Answered(r) == post[r].pc = "done"

Status(r) == post[r].res.status


\* C1: when a create request that returned 201 had completed before a
\* second create request with the same trimmed name (ignoring case)
\* started, the second returns 409; and as long as no other check-then-insert
\* cycle overlapped, the table holds exactly one row with that name.
C1_SecondCreateIsConflict ==
  \A r1 \in Reqs : \A r2 \in Reqs \ {r1} :
    ( /\ Answered(r1) /\ Status(r1) = 201
      /\ Answered(r2) /\ r1 \in post[r2].after
      /\ ToLowerCase(SubmittedName(r1)) = ToLowerCase(SubmittedName(r2)) )
    => /\ Status(r2) = 409
       /\ ~overlapped => Cardinality(RowsNamed(SubmittedName(r1))) = 1

\* Two creates one after the other, the names differing in letter case and
\* padding, the second answered 409.
C1_Witness ==
  \E r1 \in Reqs : \E r2 \in Reqs \ {r1} :
    /\ Answered(r1) /\ Status(r1) = 201
    /\ Answered(r2) /\ r1 \in post[r2].after /\ Status(r2) = 409
    /\ post[r1].body["useCase"] # post[r2].body["useCase"]
    /\ SubmittedName(r1) # SubmittedName(r2)
    /\ ToLowerCase(SubmittedName(r1)) = ToLowerCase(SubmittedName(r2))
    /\ ~overlapped
    /\ Cardinality(RowsNamed(SubmittedName(r1))) = 1

\* C2: nothing ties the existence check to the insert: a request that has
\* passed its check always inserts its row and returns 201, whatever was
\* stored in between, so two overlapping creates of one name both succeed.
C2_InsertIsUnconditional ==
  [][\A r \in Reqs :
       (post[r].pc = "create" /\ post'[r].pc = "done")
       => /\ post'[r].res.status = 201
          /\ Len(useCases') = Len(useCases) + 1
          /\ useCases'[Len(useCases')].useCase = SubmittedName(r)]_vars

\* Two create requests, both answered 201, whose rows share a name
\* ignoring case.
C2_Witness ==
  \E r1 \in Reqs : \E r2 \in Reqs \ {r1} :
    /\ Answered(r1) /\ Status(r1) = 201
    /\ Answered(r2) /\ Status(r2) = 201
    /\ r1 \notin post[r2].after /\ r2 \notin post[r1].after
    /\ ToLowerCase(SubmittedName(r1)) = ToLowerCase(SubmittedName(r2))
    /\ post[r1].res.body.data.id # post[r2].res.body.data.id
    /\ Cardinality(RowsNamed(SubmittedName(r1))) = 2

\* C3: as long as no two check-then-insert cycles (of create requests or of
\* the import script) have overlapped, no two stored rows have names that
\* are equal ignoring case.
C3_NamesUniqueWithoutOverlap ==
  ~overlapped =>
    \A i \in 1..Len(useCases) : \A j \in 1..Len(useCases) :
      i # j => ToLowerCase(useCases[i].useCase) # ToLowerCase(useCases[j].useCase)

\* Creates and an import run whose file repeats a name in another letter
\* case, none overlapping: the repeats were refused on both paths.
C3_Witness ==
  /\ ~overlapped
  /\ Len(useCases) >= 3
  /\ importer.pc = "exited" /\ importer.stats.duplicates >= 2
  /\ \E r \in Reqs : Answered(r) /\ Status(r) = 409
  /\ \E r \in Reqs : Answered(r) /\ Status(r) = 201

OptionalFields == BodyFields \ RequiredFields

\* C4: for every create request answered 201, each field of the returned
\* row is the trimmed submitted value (null for a field not submitted), and
\* a get-by-id with the returned id, issued at any later time, returns 200
\* with that same row.
C4_CreatedRowRoundTrip ==
  \A r \in Reqs :
    (Answered(r) /\ Status(r) = 201) =>
      LET row == post[r].res.body.data
          sent == post[r].body
      IN /\ row.useCase = trim(Val(sent["useCase"]))
         /\ row.conceptDescription = trim(Val(sent["conceptDescription"]))
         /\ \A f \in OptionalFields :
              row[f] = IF sent[f] = Null THEN Null ELSE Some(trim(Val(sent[f])))
         /\ GetUseCase(useCases, NatText(row.id)) = [status |-> 200, body |-> [data |-> row]]

\* A 201 for a body with padded, blank and absent fields, with a row of
\* another request stored after it.
C4_Witness ==
  \E r \in Reqs :
    /\ Answered(r) /\ Status(r) = 201
    /\ post[r].body = BodyFull
    /\ post[r].res.body.data.benefit = Some(<<>>)
    /\ post[r].res.body.data.industry = Some(<<"C","a","r">>)
    /\ post[r].res.body.data.department = Null
    /\ Len(useCases) > post[r].res.body.data.id

\* The reader's request and response, once answered.
ReaderAnswered == reader.pc = "done"

ReaderRoute == Route(reader.req.method, reader.req.path)

UnderApi(path) == path # <<>> /\ Head(path) = api

HasCode(res, code) ==
  /\ "code" \in DOMAIN res.body
  /\ res.body.code = code
  /\ "success" \in DOMAIN res.body
  /\ res.body.success = FALSE

\* C5: with a shared secret configured, a POST under /api whose x-api-key
\* header is missing or differs from the secret is answered 401 without a
\* single store operation, and no GET is answered 401.
C5_BadKeyIsUnauthorized ==
  API_KEY # "" =>
    /\ \A r \in Reqs :
         (Answered(r) /\ post[r].key # Some(API_KEY))
         => Status(r) = 401 /\ post[r].queries = 0
    /\ ( /\ ReaderAnswered
         /\ reader.req.method = "POST"
         /\ UnderApi(reader.req.path)
         /\ reader.req.key # Some(API_KEY) )
       => reader.res.status = 401 /\ reader.queries = 0
    /\ (ReaderAnswered /\ reader.req.method = "GET") => reader.res.status # 401

\* A create with the secret in the wrong letter case answered 401 over an
\* untouched table, and a GET carrying that same header answered 200.
C5_Witness ==
  /\ API_KEY = Secret
  /\ Answered(1) /\ post[1].key = Some("S3CRET") /\ Status(1) = 401
  /\ useCases = SampleTable
  /\ ReaderAnswered /\ reader.req.method = "GET"
  /\ reader.req.key = Some("S3CRET") /\ reader.res.status = 200

\* The rules of the data model a create body can break: name of 3..500
\* and description of 10..10,000 characters after trimming, capped
\* optional texts.
BreaksFieldRule(b) ==
  LET n(f) == IF b[f] = Null THEN 0 ELSE Len(trim(Val(b[f])))
  IN \/ n("useCase") < 3 \/ n("useCase") > 500
     \/ n("conceptDescription") < 10 \/ n("conceptDescription") > 10000
     \/ n("concreteImplementation") > 10000
     \/ n("benefit") > 5000
     \/ n("industry") > 200 \/ n("department") > 200 \/ n("valueChainStep") > 200

\* C6: with no shared secret configured, a POST /use-cases is never
\* answered 401 whatever its x-api-key header, absent included; it is
\* validated and reaches the store like an authenticated one.
C6_NoSecretAcceptsAnyKey ==
  API_KEY = "" =>
    \A r \in Reqs :
      Answered(r) =>
        /\ Status(r) \in {201, 400, 409}
        /\ BreaksFieldRule(post[r].body) => Status(r) = 400
        /\ Status(r) = 400 => post[r].queries = 0
        /\ Status(r) = 409 => post[r].queries = 1 /\ RowsNamed(SubmittedName(r)) # {}
        /\ Status(r) = 201 =>
             /\ post[r].queries = 2
             /\ post[r].res.body.data \in {useCases[i] : i \in 1..Len(useCases)}

\* No secret configured, no header sent, and the row is created.
C6_Witness ==
  /\ API_KEY = ""
  /\ Answered(1) /\ post[1].key = NoHeader /\ Status(1) = 201
  /\ post[1].res.body.data = useCases[Len(useCases)]

\* C7: a create refused because the name is taken is answered 409 with
\* success false and code DUPLICATE_ENTRY.
C7_DuplicateHasDuplicateEntryCode ==
  \A r \in Reqs :
    (Answered(r) /\ Status(r) = 409) => HasCode(post[r].res, DUPLICATE_ENTRY)

\* A positive integer, written in decimal.
IsPositiveId(s) == \E n \in 1..99 : s \in {NatText(n), <<"0">> \o NatText(n)}

IdValue(s) == CHOOSE n \in 1..99 : s \in {NatText(n), <<"0">> \o NatText(n)}

\* C8: a get-by-id for a positive integer id no row has, and a request to
\* an undefined route (that the API key check lets through), are answered
\* 404 with code NOT_FOUND.
C8_MissingIs404NotFound ==
  ( /\ ReaderAnswered
    /\ AuthPasses(reader.req.method, reader.req.path, reader.req.key, API_KEY)
    /\ \/ ReaderRoute = "notFound"
       \/ /\ ReaderRoute = "getById"
          /\ IsPositiveId(reader.req.path[3])
          /\ \A i \in 1..reader.startLen : useCases[i].id # IdValue(reader.req.path[3]) )
  => reader.res.status = 404 /\ HasCode(reader.res, NOT_FOUND)

IsIntegerIn(s, lo, hi) == \E n \in lo..hi : s \in {NatText(n), <<"0">> \o NatText(n)}

\* What makes a request malformed: page, limit or id not an integer in
\* range, or a create body that breaks a field rule.
MalformedList(q) ==
  \/ q["page"] # Null /\ ~IsIntegerIn(Val(q["page"]), 1, 1000)
  \/ q["limit"] # Null /\ ~IsIntegerIn(Val(q["limit"]), 1, 100)

IsValidationError(res) == res.status = 400 /\ HasCode(res, VALIDATION_ERROR)

\* The reader's part of C9, shared by the claim as written and as amended.
C9_ReadsRejected ==
  /\ (ReaderAnswered /\ ReaderRoute = "list" /\ MalformedList(reader.req.query))
     => IsValidationError(reader.res) /\ reader.queries = 0
  /\ (ReaderAnswered /\ ReaderRoute = "getById" /\ ~IsPositiveId(reader.req.path[3]))
     => IsValidationError(reader.res) /\ reader.queries = 0

\* C9 as written: malformed list and get-by-id requests, and every create
\* whose body breaks a field rule, are answered 400 VALIDATION_ERROR with
\* no store query issued.
C9_MalformedIs400 ==
  /\ C9_ReadsRejected
  /\ \A r \in Reqs :
       (Answered(r) /\ BreaksFieldRule(post[r].body))
       => IsValidationError(post[r].res) /\ post[r].queries = 0

\* C9 as amended: the same, for a create that the API key check lets through.
C9_MalformedIs400WhenAuthorized ==
  /\ C9_ReadsRejected
  /\ \A r \in Reqs :
       ( /\ Answered(r)
         /\ BreaksFieldRule(post[r].body)
         /\ (API_KEY = "" \/ post[r].key = Some(API_KEY)) )
       => IsValidationError(post[r].res) /\ post[r].queries = 0

\* A create with an over-long name and a list with limit 101, both
\* answered 400 over an untouched table.
C9_Witness ==
  /\ API_KEY = Secret
  /\ Answered(1) /\ post[1].body = BodyLongName /\ IsValidationError(post[1].res)
  /\ ReaderAnswered /\ ReaderRoute = "list"
  /\ reader.req.query["limit"] = Some(<<"1","0","1">>)
  /\ IsValidationError(reader.res) /\ reader.queries = 0
  /\ useCases = SampleTable

\* The rows a list request's filters select.
Selected(q) == {i \in 1..Len(useCases) : Matches(useCases[i], q)}

\* C10: over a table unchanged since the list request began, total is the
\* number of rows the filters select (so the same on every page),
\* totalPages is the least count of pages of `limit` rows that hold them,
\* hasNext is page < totalPages and hasPrev is page > 1.
C10_PaginationConsistent ==
  ( /\ ReaderAnswered /\ ReaderRoute = "list" /\ reader.res.status = 200
    /\ Len(useCases) = reader.startLen )
  => LET p == reader.res.body.pagination
     IN /\ p.page >= 1 /\ p.limit \in 1..100
        /\ p.total = Cardinality(Selected(reader.req.query))
        /\ p.totalPages * p.limit >= p.total
        /\ p.totalPages >= 0
        /\ p.totalPages > 0 => (p.totalPages - 1) * p.limit < p.total
        /\ p.hasNext = (p.page < p.totalPages)
        /\ p.hasPrev = (p.page > 1)

\* Page 2 of 2 with a short last page: three rows, limit 2.
C10_Witness ==
  /\ ReaderAnswered /\ ReaderRoute = "list" /\ reader.res.status = 200
  /\ Len(useCases) = reader.startLen
  /\ reader.res.body.pagination.total = 3
  /\ reader.res.body.pagination.limit = 2
  /\ reader.res.body.pagination.page = 2
  /\ reader.res.body.pagination.totalPages = 2
  /\ ~reader.res.body.pagination.hasNext
  /\ reader.res.body.pagination.hasPrev

\* The list request the reader was answered 200 for, over a table no insert
\* has touched since the request began.
ListAnswered ==
  /\ ReaderAnswered /\ ReaderRoute = "list" /\ reader.res.status = 200
  /\ Len(useCases) = reader.startLen

\* The text a occurs in the text s, letter case ignored.
OccursIgnoringCase(a, s) ==
  \E i \in 0..(Len(s) - Len(a)) :
    \A k \in 1..Len(a) : ToLowerChar(s[i + k]) = ToLowerChar(a[k])

\* The term occurs in the row's name, description or (non-null) benefit.
TermOccurs(term, row) ==
  \/ OccursIgnoringCase(term, row.useCase)
  \/ OccursIgnoringCase(term, row.conceptDescription)
  \/ row.benefit # Null /\ OccursIgnoringCase(term, Val(row.benefit))

OnlySearch(q) ==
  /\ q["search"] # Null
  /\ q["industry"] = Null /\ q["valueChainStep"] = Null /\ q["department"] = Null

\* The answer counts exactly the rows `hits`, returns only rows among them,
\* and all of them when they fit on the page asked for.
AnswerSelects(hits) ==
  LET body == reader.res.body
  IN /\ body.pagination.total = Cardinality(hits)
     /\ \A k \in 1..Len(body.data) : body.data[k] \in {useCases[i] : i \in hits}
     /\ (body.pagination.page = 1 /\ Cardinality(hits) <= body.pagination.limit)
        => {body.data[k] : k \in 1..Len(body.data)} = {useCases[i] : i \in hits}

\* The answer counts and returns exactly the rows the term occurs in.
SearchSelects(term) == AnswerSelects({i \in 1..Len(useCases) : TermOccurs(term, useCases[i])})

\* C11 as written: for a list request with a non-empty search term and no
\* other filter, a row is counted in total and returned exactly when the
\* term occurs, ignoring case, in its useCase, its conceptDescription or its
\* benefit; a row with a null benefit and no occurrence elsewhere is excluded.
C11_SearchSelectsByTerm ==
  (ListAnswered /\ OnlySearch(reader.req.query) /\ Val(reader.req.query["search"]) # <<>>)
  => SearchSelects(Val(reader.req.query["search"]))

\* C11 as amended: the same for a term that is non-empty after trimming,
\* the term that has to occur being the trimmed one.
C11_SearchSelectsByTrimmedTerm ==
  ( /\ ListAnswered /\ OnlySearch(reader.req.query)
    /\ trim(Val(reader.req.query["search"])) # <<>> )
  => SearchSelects(trim(Val(reader.req.query["search"])))

\* A search for "XM" over three rows: one hit, by its benefit "xml" alone;
\* the row with a null benefit is left out.
C11_Witness ==
  /\ ListAnswered /\ OnlySearch(reader.req.query)
  /\ reader.req.query["search"] = Some(<<"X","M">>)
  /\ useCases = SampleTable
  /\ reader.res.body.pagination.total = 1
  /\ Len(reader.res.body.data) = 1
  /\ reader.res.body.data[1].benefit = Some(<<"x","m","l">>)
  /\ \E i \in 1..Len(useCases) : useCases[i].benefit = Null

CategoricalFilters == {"industry", "valueChainStep", "department"}

\* The filter is present and not empty after trimming.
Supplied(q, f) == q[f] # Null /\ trim(Val(q[f])) # <<>>

\* The same text, letter case ignored.
SameIgnoringCase(a, b) ==
  Len(a) = Len(b) /\ \A k \in 1..Len(a) : ToLowerChar(a[k]) = ToLowerChar(b[k])

\* The row satisfies every supplied filter at once.
SatisfiesAll(row, q) ==
  /\ \A f \in CategoricalFilters :
       Supplied(q, f) => row[f] # Null /\ SameIgnoringCase(Val(row[f]), trim(Val(q[f])))
  /\ Supplied(q, "search") => TermOccurs(trim(Val(q["search"])), row)

\* C12: for a list request carrying any subset of industry, valueChainStep,
\* department and search, a row matches exactly when it satisfies every
\* supplied filter at once: the categorical ones by equality ignoring case,
\* search by the substring rule; a filter that is absent or empty after
\* trimming restricts nothing.
C12_FiltersCombineWithAnd ==
  ListAnswered =>
    AnswerSelects({i \in 1..Len(useCases) : SatisfiesAll(useCases[i], reader.req.query)})

\* industry=car with search=html: two rows are of that industry, all three
\* contain "ml" somewhere, one satisfies both filters.
C12_Witness ==
  /\ ListAnswered /\ useCases = SampleTable
  /\ reader.req.query["industry"] = Some(<<"c","a","r">>)
  /\ reader.req.query["search"] = Some(<<"h","t","m","l">>)
  /\ Cardinality({i \in 1..Len(useCases) : useCases[i].industry \in
                     {Some(<<"c","a","r">>), Some(<<"C","A","R">>)}}) = 2
  /\ reader.res.body.pagination.total = 1
  /\ Len(reader.res.body.data) = 1
  /\ reader.res.body.data[1].industry = Some(<<"C","A","R">>)

\* The rows the request's filters select, and for each the number of
\* selected rows created after it: its position, from 0, newest first.
Hits(q) == {i \in 1..Len(useCases) : SatisfiesAll(useCases[i], q)}

Position(i, q) ==
  Cardinality({j \in Hits(q) : useCases[j].createdAt > useCases[i].createdAt})

\* The page the handler returns for page number p of the reader's request.
PageOf(q, limit, p) == FindMany(useCases, q, (p - 1) * limit, limit)

ValuesPresent(f, n) ==
  {Val(useCases[i][f]) : i \in {j \in 1..n : useCases[j][f] # Null}} \ {<<>>}

\* The list is without repetition and ascending, and holds exactly the
\* values of column f present at some moment of the request.
IsFilterList(list, f) ==
  /\ \A k \in 1..(Len(list) - 1) : TextLess(list[k], list[k + 1])
  /\ \A k \in 1..Len(list) : \A m \in 1..Len(list) : k # m => list[k] # list[m]
  /\ \E n \in reader.startLen..Len(useCases) : Range(list) = ValuesPresent(f, n)

\* C14: GET /use-cases/filters returns, for each of industry,
\* valueChainStep and department, exactly the distinct non-null, non-empty
\* values present in the stored rows at that moment, each list without
\* repetition and in ascending order.
C14_FiltersListDistinctValues ==
  (ReaderAnswered /\ ReaderRoute = "filters") =>
    /\ reader.res.status = 200
    /\ reader.queries = 3
    /\ IsFilterList(reader.res.body.industries, "industry")
    /\ IsFilterList(reader.res.body.valueChainSteps, "valueChainStep")
    /\ IsFilterList(reader.res.body.departments, "department")

\* Three rows: an industry stored in two letter cases gives two values, a
\* row without department and a row with an empty value chain step add
\* nothing.
C14_Witness ==
  /\ ReaderAnswered /\ ReaderRoute = "filters"
  /\ useCases = SampleTable /\ reader.startLen = Len(useCases)
  /\ reader.res.body.industries = << <<"C","A","R">>, <<"c","a","r">> >>
  /\ reader.res.body.valueChainSteps = << <<"O","p","s">> >>
  /\ reader.res.body.departments = << <<"I","T">> >>
  /\ \E i \in 1..Len(useCases) : useCases[i].valueChainStep = Some(<<>>)
  /\ \E i \in 1..Len(useCases) : useCases[i].department = Null

\* The file of the behaviour, once a run has read it.
TheFile == IF importer.file = 0 THEN <<>> ELSE CsvFiles[importer.file]

\* The text is absent, empty or white space throughout.
IsBlank(value) ==
  value = Null \/ \A k \in 1..Len(Val(value)) : Val(value)[k] \in WhiteSpace

\* The rows of the file that carry a name and a description.
CompleteRows ==
  {k \in 1..Len(TheFile) :
     ~IsBlank(TheFile[k]["Use Case"]) /\ ~IsBlank(TheFile[k]["Concept description"])}

\* Two runs over the file have ended, neither met an error, and every row
\* stored since the first began was stored by one of them.
TwoRunsAlone ==
  /\ importer.pc = "exited" /\ importer.run >= 2
  /\ importer.exitCode = Some(0) /\ importer.prev.exitCode = Some(0)
  /\ Len(useCases) =
       importer.prev.startLen + importer.prev.stats.inserted + importer.stats.inserted

\* The second run inserted nothing and left the table as it found it.
SecondRunAddsNothing ==
  /\ importer.stats.inserted = 0
  /\ Len(useCases) = importer.startLen

AtIncompleteRow ==
  /\ importer.pc = "rows"
  /\ importer.i <= Len(TheFile)
  /\ importer.i \notin CompleteRows

\* C16: for every import row whose Use Case or Concept description is
\* missing, empty or only white space, the importer inserts nothing, issues
\* no store query for the row, adds one to the skipped counter, records one
\* reason for the row, and goes on with the next row.
C16_IncompleteRowIsSkipped ==
  [][(AtIncompleteRow /\ importer' # importer) =>
       /\ useCases' = useCases
       /\ importer'.queries = importer.queries
       /\ importer'.stats.skipped = importer.stats.skipped + 1
       /\ importer'.stats.inserted = importer.stats.inserted
       /\ importer'.stats.duplicates = importer.stats.duplicates
       /\ importer'.stats.errors = importer.stats.errors
       /\ Len(importer'.stats.errorDetails) = Len(importer.stats.errorDetails) + 1
       /\ importer'.stats.errorDetails[Len(importer'.stats.errorDetails)].row = importer.i + 1
       /\ importer'.pc = "rows"
       /\ importer'.i = importer.i + 1]_vars

\* A run over the quoted file has ended: the rows with a description of
\* blanks and with a name of one tab were skipped without a query, the row
\* before them was inserted.
C16_Witness ==
  /\ importer.pc = "exited" /\ importer.file = 2
  /\ importer.stats.skipped = 2
  /\ importer.stats.inserted = 1
  /\ importer.queries = 2
  /\ Len(importer.stats.errorDetails) = 2
  /\ importer.stats.errorDetails[1].row = 3
  /\ importer.stats.errorDetails[2].row = 4

\* The counters of a run add up to the rows gone through.
RowsCounted ==
  importer.stats.inserted + importer.stats.skipped
    + importer.stats.duplicates + importer.stats.errors

\* The run ended before its first row.
EndedFatally ==
  /\ importer.pc = "exited"
  /\ importer.i = 0
  /\ importer.queries = 0
  /\ RowsCounted = 0 /\ importer.stats.errorDetails = <<>>

\* The run ended after its last row, every row counted once.
EndedAfterLastRow ==
  /\ importer.pc = "exited"
  /\ importer.i = Len(TheFile) + 1
  /\ RowsCounted = Len(TheFile)

\* C17: a store failure while checking or inserting one import row adds
\* one to the error counter, records the reason, leaves the rows inserted
\* before it in place and does not stop the run: every later row is still
\* processed; only a failure before row processing starts ends the run,
\* and then no row is processed.
C17_RowFailureDoesNotStopTheRun ==
  /\ [][(importer'.failures > importer.failures /\ importer.pc \in {"rows", "create"}) =>
          /\ importer'.stats.errors = importer.stats.errors + 1
          /\ Len(importer'.stats.errorDetails) = Len(importer.stats.errorDetails) + 1
          /\ importer'.stats.errorDetails[Len(importer'.stats.errorDetails)].row
               = importer.i + 1
          /\ importer'.stats.inserted = importer.stats.inserted
          /\ useCases' = useCases
          /\ importer'.pc = "rows"
          /\ importer'.i = importer.i + 1]_vars
  /\ [](importer.pc = "exited" => (EndedFatally \/ EndedAfterLastRow))
  /\ [](importer.pc \in {"rows", "create"} => RowsCounted = importer.i - 1)

\* A run over five rows that failed on the second: the row inserted before
\* is in place, the error is recorded for the second row, the three rows
\* after it were processed, the last of them inserted, and the run ended
\* after the last row.
C17_Witness ==
  /\ EndedAfterLastRow /\ importer.file = 1
  /\ importer.stats.errors = 1
  /\ importer.stats.errorDetails[1].row = 3
  /\ importer.stats.inserted = 2
  /\ importer.stats.skipped = 2
  /\ Len(useCases) = importer.startLen + 2
  /\ useCases[importer.startLen + 1].useCase = <<"A","B","C">>
  /\ useCases[importer.startLen + 2].useCase = <<"L","m","n">>

\* C18: the importer terminates on every finite input, with a non-zero
\* exit status when at least one row produced an unexpected error or the
\* run failed fatally, and with exit status zero when every row was
\* inserted, skipped for an absent required field, or counted a duplicate.
C18_ImporterTerminates ==
  /\ (importer.pc \in {"rows", "create"}) ~> (importer.pc = "exited")
  /\ [](importer.pc = "exited" =>
          /\ importer.exitCode \in {Some(0), Some(1)}
          /\ (importer.stats.errors > 0 \/ EndedFatally) => importer.exitCode = Some(1)
          /\ ( /\ EndedAfterLastRow
               /\ importer.stats.inserted + importer.stats.skipped
                    + importer.stats.duplicates = Len(TheFile) )
             => importer.exitCode = Some(0))

\* A run over five rows ended with status 0, its rows inserted, skipped
\* and counted as duplicate; the run before it had ended with status 1.
C18_Witness ==
  /\ EndedAfterLastRow /\ importer.file = 1 /\ importer.run = 2
  /\ importer.exitCode = Some(0)
  /\ importer.stats.inserted >= 1
  /\ importer.stats.skipped = 2
  /\ importer.stats.duplicates >= 1
  /\ importer.prev.exitCode = Some(1)
  /\ importer.prev.stats.errors = 1

StoredRows == {useCases[i] : i \in 1..Len(useCases)}

\* C19: once a row is stored, no sequence of API requests and importer
\* runs changes any of its fields or removes it: the stored rows only
\* grow, and a get-by-id for an existing id returns the same row at every
\* later time.
C19_StoredRowsNeverChange ==
  /\ [][/\ Len(useCases') >= Len(useCases)
        /\ \A i \in 1..Len(useCases) :
             /\ useCases'[i] = useCases[i]
             /\ GetUseCase(useCases', NatText(useCases[i].id))
                  = [status |-> 200, body |-> [data |-> useCases[i]]]]_vars
  /\ []((ReaderAnswered /\ ReaderRoute = "getById" /\ reader.res.status = 200)
         => reader.res.body.data \in StoredRows)

\* The row a get-by-id returned is still stored as returned, after a
\* create request and the import script have both added rows since.
C19_Witness ==
  /\ ReaderAnswered /\ ReaderRoute = "getById" /\ reader.res.status = 200
  /\ reader.res.body.data = useCases[1]
  /\ reader.startLen = 1
  /\ Answered(1) /\ Status(1) = 201 /\ post[1].res.body.data.id > 1
  /\ importer.pc = "exited" /\ importer.stats.inserted >= 1
  /\ Len(useCases) >= 3

\* The text is not empty and neither begins nor ends with white space.
IsTrimmedText(s) ==
  /\ Len(s) > 0
  /\ s[1] \notin WhiteSpace
  /\ s[Len(s)] \notin WhiteSpace

\* C20: in every reachable state, every stored row, whether created by the
\* create endpoint or by the importer, has a useCase and a
\* conceptDescription that are non-empty and carry no leading or trailing
\* white space.
C20_RequiredFieldsAreTrimmedText ==
  \A i \in 1..Len(useCases) :
    /\ IsTrimmedText(useCases[i].useCase)
    /\ IsTrimmedText(useCases[i].conceptDescription)

\* A row of the create endpoint sent as " Abc" and a row of the importer
\* read as " Pqr ", both stored trimmed; the file's blank rows were skipped.
C20_Witness ==
  /\ Answered(1) /\ Status(1) = 201 /\ post[1].body = BodyFull
  /\ post[1].res.body.data.useCase = <<"A","b","c">>
  /\ post[1].res.body.data \in StoredRows
  /\ importer.pc = "exited" /\ importer.file = 2
  /\ importer.stats.inserted = 1 /\ importer.stats.skipped = 2
  /\ \E i \in 1..Len(useCases) :
       /\ useCases[i].useCase = <<"P","q","r">>
       /\ useCases[i].conceptDescription = Concept10

\* The url is given, not blank, and not of the URL shape.
IsBadUrl(value) ==
  /\ ~IsBlank(value)
  /\ ~urlRegex(trim(Val(value)))

\* The request passed the API key check.
KeyAccepted(r) == API_KEY = "" \/ post[r].key = Some(API_KEY)

\* The importer's part of C21: the row it inserts carries the file's url,
\* trimmed and otherwise unchanged, URL-shaped or not; and a run skips
\* only the rows that lack a name or a description.
C21_ImportStoresUrlUnchanged ==
  /\ [][(importer'.stats.inserted = importer.stats.inserted + 1) =>
          LET value == TheFile[importer.i]["URL"]
          IN useCases'[Len(useCases')].url =
               IF IsBlank(value) THEN Null ELSE Some(trim(Val(value)))]_vars
  /\ [](EndedAfterLastRow =>
          importer.stats.skipped = Len(TheFile) - Cardinality(CompleteRows))

C22_StoredLengthsInRange ==
  \A i \in 1..Len(useCases) :
    /\ Len(useCases[i].useCase) \in 3..500
    /\ Len(useCases[i].conceptDescription) \in 10..10000

\* C23: in every reachable state, each optional field of every stored row
\* is either null or a non-empty text without leading or trailing white
\* space; a create request that supplies an optional field empty or blank
\* stores null for it, as the importer does.
C23_OptionalFieldsNullOrTrimmedText ==
  \A i \in 1..Len(useCases) : \A f \in OptionalFields :
    useCases[i][f] = Null \/ IsTrimmedText(Val(useCases[i][f]))

\* The ids of the stored rows.
StoredIds == {useCases[i].id : i \in 1..Len(useCases)}

\* C24: every create request changes the store in exactly one of two
\* ways: the step that answers 201 adds exactly one new row, with an id no
\* existing row has, and leaves all other rows unchanged; a step that
\* answers anything else (400, 401, 409, 500), and the step of the
\* existence check that answers nothing yet, leave the store as it was.
C24_CreateAddsOneRowOrNothing ==
  [][\A r \in Reqs :
       /\ (post[r].pc # "done" /\ post'[r].pc = "done") =>
            IF post'[r].res.status = 201
              THEN /\ Len(useCases') = Len(useCases) + 1
                   /\ SubSeq(useCases', 1, Len(useCases)) = useCases
                   /\ useCases'[Len(useCases')].id \notin StoredIds
                   /\ post'[r].res.body.data = useCases'[Len(useCases')]
              ELSE /\ post'[r].res.status \in {400, 401, 409, 500}
                   /\ useCases' = useCases
       /\ (post[r].pc = "idle" /\ post'[r].pc = "create") => useCases' = useCases]_vars

\* One request was answered 500 by its failed insert and another 201,
\* and the table holds one row more than at the start, the row of the 201.
C24_Witness ==
  \E r \in Reqs, o \in Reqs :
    /\ Answered(r) /\ Status(r) = 500 /\ post[r].queries = 2
    /\ Answered(o) /\ Status(o) = 201
    /\ post[o].res.body.data = useCases[Len(useCases)]
    /\ \A q \in Reqs \ {o} : Answered(q) => Status(q) # 201

\* C25: for a POST /use-cases the shared-secret check runs before body
\* validation and before any store access: with a configured secret, the
\* step that takes in a request with a wrong or missing secret and an
\* invalid body, or with a name that already exists, answers it 401 (never
\* 400, never 409) with no store query issued.
C25_KeyCheckComesFirst ==
  [][\A r \in Reqs :
       ( /\ post[r].pc = "idle" /\ post'[r].pc # "idle"
         /\ API_KEY # "" /\ post'[r].key # Some(API_KEY)
         /\ \/ CreateErrors(post'[r].body) # {}
            \/ FindFirstByName(useCases, CreateLookupName(post'[r].body)) # {} )
       => /\ post'[r].pc = "done"
          /\ post'[r].res.status = 401
          /\ post'[r].res.status \notin {400, 409}
          /\ post'[r].queries = 0
          /\ useCases' = useCases]_vars

\* With the secret configured: a request with a wrong secret and a body
\* that fails validation, and one without the header whose name the table
\* holds in another letter case, both answered 401.
C25_Witness ==
  /\ API_KEY = Secret
  /\ \E r \in Reqs, o \in Reqs :
       /\ Answered(r) /\ post[r].key = Some("S3CRET") /\ post[r].body = BodyShortName
       /\ Status(r) = 401
       /\ Answered(o) /\ post[o].key = NoHeader /\ post[o].body = BodyFull
       /\ RowsNamed(SubmittedName(o)) # {}
       /\ Status(o) = 401 /\ post[o].queries = 0

\* min(limit, max(0, total - (page - 1) * limit))
RowsDue(page, limit, total) ==
  LET left == IF total - (page - 1) * limit > 0 THEN total - (page - 1) * limit ELSE 0
  IN IF limit < left THEN limit ELSE left

\* The reader was answered 200 for a list request.
ListReplied == ReaderAnswered /\ ReaderRoute = "list" /\ reader.res.status = 200

\* The returned rows are as many as the reported total leaves for the page.
RowCountMatchesTotal ==
  LET p == reader.res.body.pagination
  IN Len(reader.res.body.data) = RowsDue(p.page, p.limit, p.total)

\* C26 as written: in every list response, including one computed while
\* create requests or an import run commit rows, the number of returned
\* rows equals min(limit, max(0, total - (page-1)*limit)) for the total of
\* the same response.
C26_RowCountMatchesTotal == ListReplied => RowCountMatchesTotal

\* C26 as amended: the same for a list response computed while no row is
\* committed between its two queries; a response computed while rows are
\* committed still returns at most limit rows.
C26_RowCountMatchesTotalOnQuietTable ==
  /\ ListAnswered => RowCountMatchesTotal
  /\ ListReplied => Len(reader.res.body.data) <= reader.res.body.pagination.limit

\* A list answered over a table that a create request and the import
\* script had both added to before it began: two matches, limit 1, one row.
C26_Witness ==
  /\ ListAnswered
  /\ reader.res.body.pagination.limit = 1
  /\ reader.res.body.pagination.total >= 2
  /\ Len(reader.res.body.data) = 1
  /\ Answered(1) /\ Status(1) = 201
  /\ importer.stats.inserted >= 1

\* The create requests whose row was stored after the current run began.
CreatedSinceRunBegan ==
  {r \in Reqs : Answered(r) /\ Status(r) = 201
                   /\ post[r].res.body.data.id > importer.startLen}

\* The rows the current run has added to the table.
AddedByRun == Len(useCases) - importer.startLen - Cardinality(CreatedSinceRunBegan)

\* C27: when an importer run completes its row loop, totalRows = inserted
\* + skipped + duplicates + errors; every parsed row is counted in exactly
\* one of the four counters (each row gone through raises one counter by
\* one and none falls), and inserted equals the number of rows the run
\* added to the store.
C27_CountersAddUp ==
  /\ [][(importer.pc \in {"rows", "create"} /\ importer'.i = importer.i + 1) =>
          /\ importer'.stats.inserted >= importer.stats.inserted
          /\ importer'.stats.skipped >= importer.stats.skipped
          /\ importer'.stats.duplicates >= importer.stats.duplicates
          /\ importer'.stats.errors >= importer.stats.errors
          /\ importer'.stats.inserted + importer'.stats.skipped
               + importer'.stats.duplicates + importer'.stats.errors
               = importer.stats.inserted + importer.stats.skipped
                   + importer.stats.duplicates + importer.stats.errors + 1
          /\ importer'.stats.totalRows = importer.stats.totalRows]_vars
  /\ []((importer.pc = "exited" /\ importer.i = Len(TheFile) + 1) =>
          /\ importer.stats.totalRows = Len(TheFile)
          /\ importer.stats.totalRows
               = importer.stats.inserted + importer.stats.skipped
                   + importer.stats.duplicates + importer.stats.errors
          /\ importer.stats.inserted = AddedByRun)

\* A run over the five rows with one of each outcome and a second skip,
\* during which a create request stored a row of its own.
C27_Witness ==
  /\ importer.pc = "exited" /\ importer.i = Len(TheFile) + 1 /\ importer.file = 1
  /\ importer.stats.totalRows = 5
  /\ importer.stats.inserted = 1 /\ importer.stats.skipped = 2
  /\ importer.stats.duplicates = 1 /\ importer.stats.errors = 1
  /\ CreatedSinceRunBegan # {}
  /\ Len(useCases) = importer.startLen + 2

\* What the server answers the list request sent last.
LatestAnswer == ListAnswer(useCases, Val(explore.latest))

\* Every list request has been answered, none of them with an error.
AllListsArrived ==
  /\ explore.mounted /\ ~explore.effectPending
  /\ explore.latest # Null
  /\ explore.inFlight = EmptyBag
  /\ explore.error = Null

\* C28: in the explore view, when several list requests are in flight at
\* once, then after all responses have arrived the displayed rows and
\* pagination are those of the most recently issued request, and the
\* loading flag is false only when no request is in flight.
C28_LatestRequestWins ==
  /\ AllListsArrived =>
       /\ explore.useCases = LatestAnswer.body.data
       /\ explore.pagination = Some(LatestAnswer.body.pagination)
  /\ (explore.mounted /\ ~explore.isLoading) => explore.inFlight = EmptyBag

\* The step sends a list request.
SendsList == BagCardinality(explore'.inFlight) > BagCardinality(explore.inFlight)

\* C29: in the explore view, every list request issued after the industry
\* filter, the value-chain-step filter or the search text changes (one
\* whose filters or search text differ from those of the request before)
\* carries page = 1; a request with a page above 1 is only issued for the
\* filter and search values under which that page was selected.
C29_FilterChangeResetsPage ==
  [][SendsList =>
       LET q == Val(explore'.latest)
       IN /\ (explore.latest # Null /\ Criteria(q) # Criteria(Val(explore.latest)))
               => q["page"] = Some(NatText(1))
          /\ q["page"] # Some(NatText(1))
               => explore'.selectedUnder = Some(Criteria(q))]_vars

\* C30: the creation form sends a POST /use-cases only when its
\* client-side validation passes, and every form that passes it produces
\* a payload that passes the server's create validation: the request is
\* never answered 400 VALIDATION_ERROR.
C30_FormMirrorsServer ==
  /\ [][form'.requests > form.requests =>
          /\ validateForm(form.formData) = {}
          /\ form'.body = FormBody(form.formData)]_vars
  /\ [](\A r \in Reqs :
          (r <= form.requests /\ Answered(r)) => ~IsValidationError(post[r].res))

====
